---- MODULE Spec2Model ----
(***************************************************************************)
(* agent-multi-cr: the orchestration core of run_pipeline                  *)
(* (src/src/agent_multi_cr/pipeline.py) and of the runners it calls        *)
(* (src/src/agent_multi_cr/llm_runners.py).                                *)
(*                                                                         *)
(* Texts are sequences of one-token strings.  A token is either a plain    *)
(* character (" ", "x", "7", "{", "}", "[", "]", ",") or stands for a      *)
(* fixed run of characters: a JSON member such as "S:final"                *)
(* ("state": "final"), or a fixed message of the program.                  *)
(*                                                                         *)
(* The specifications share the variables:                                 *)
(*   ParseSpec    parse_arbiter_json applied to every bounded text;        *)
(*   ArbiterSpec  the arbiter phase of run_pipeline (pipeline.py 694-871)  *)
(*                entered with both review mappings complete and with      *)
(*                run_arbiter_step answering its caller;                   *)
(*   Spec         the run of run_pipeline from the first review round on,  *)
(*                with the calls bound as the source binds them;           *)
(*   ShellSpec    run_shell and its retries (shell_utils.py);              *)
(*   RunSpec      the run directory: validation, registration, marker,     *)
(*                teardown and exit hook;                                  *)
(*   SetupSpec    the workspaces of the agents of one run;                 *)
(*   MemoSpec     load_memo, extract_and_update_memo and save_memo         *)
(*                (auditors.py) around one answer of a reviewer;           *)
(*   PersistSpec  the memo file over successive runs of one workdir root;  *)
(*   SnippetSpec  the follow-up branch of the arbiter loop and             *)
(*                build_qa_snippet_for_reviewer;                           *)
(*   HandoffSpec  the call of run_arbiter_step bound to its signature;     *)
(*   SandboxSpec  the git commands that set up the reviewers' worktrees;   *)
(*   ProgressSpec the progress dict between the main thread and the        *)
(*                reporter thread;                                         *)
(*   WorktreeSpec _cleanup_run_workdir over the worktree list of git;      *)
(*   ExecSpec     two executions of run_pipeline with one workdir root.    *)
(***************************************************************************)
EXTENDS Integers, Sequences, FiniteSets, TLC

VARIABLES
    pc,              \* position of the orchestrating thread
    raw,             \* text handed to parse_arbiter_json / answered by the arbiter
    control,         \* control object returned by parse_arbiter_json
    auditors,        \* reviewer roster: sequence of Auditor names
    mode,            \* arbiter_round_mode
    max_queries,     \* query budget
    initial_reviews, \* mapping name -> review of round 1
    latest_reviews,  \* mapping name -> review of round 2
    qa_history,      \* list of {reviewer, question, answer}
    query_count,     \* number of follow-ups used
    final_markdown,  \* Optional report under construction
    call,            \* the external call in flight in the arbiter phase
    calls,           \* log of the external invocations of the arbiter phase
    report,          \* value returned by run_pipeline
    error,           \* exception that left run_pipeline ("" when none)
    round,           \* review round being run by the worker pool
    task,            \* per roster position: state of the round's future
    outcome,         \* per round: future_to_auditor, the reviewers dispatched
    completed,       \* number of results collected in the current round
    script,          \* run_shell: what the external process does on each attempt
    shell,           \* run_shell: loop index, last_result and how the call ended
    fs,              \* the run directory on disk and the worktrees under it
    registry,        \* _CLEANUP_RUN_WORKDIRS
    hook,            \* _ATEEXIT_REGISTERED
    cleanups,        \* log of the cleanup attempts on an existing run directory
    base_workdir,    \* --auditors-workdir as given to run_pipeline
    codex_configs,   \* the (model, effort) pairs given to run_pipeline
    arbiter_family,  \* "codex" or "gemini"
    has_git,         \* whether the repository root holds a .git directory
    slug_map,        \* the dict _unique_slug records its results in
    workdirs,        \* workspace directory of each agent set up so far
    memo_files,      \* the files on disk: path -> text
    raw_output,      \* a reviewer's answer handed to extract_and_update_memo
    current_memo,    \* the memo loaded before the call
    cleaned_output,  \* first component returned by extract_and_update_memo
    new_memo,        \* second component returned by extract_and_update_memo
    qa_snippet,      \* result of build_qa_snippet_for_reviewer
    run_id,          \* number of the run in progress, of the runs sharing one workdir root
    stderr,          \* warnings written to sys.stderr by the set-up of the workspaces
    patch_text,      \* the git diff handed to _apply_patch_to_worktree
    progress,        \* the shared progress dict of run_pipeline
    progress_lock,   \* the thread holding progress_lock, or "none"
    stop_progress,   \* the Event that ends the reporter
    reporter,        \* the reporter thread: its position and the values it has read
    worktrees,       \* the worktrees git has registered, in the order it lists them
    current_line,    \* the line of the list _remove_worktrees_under is at
    execs            \* the executions of run_pipeline that share one workdir root

\* the inputs and results of workspace provisioning, of the memo store and
\* of the follow-up prompt
\* the state of workspace set-up by git and of progress reporting
\* the state of worktree cleanup and of executions side by side
moreVars == <<worktrees, current_line, execs>>

extVars == <<stderr, patch_text, progress, progress_lock, stop_progress, reporter, moreVars>>

auxVars == <<base_workdir, codex_configs, arbiter_family, has_git, slug_map,
             workdirs, memo_files, raw_output, current_memo, cleaned_output,
             new_memo, qa_snippet, run_id, extVars>>

vars == <<pc, raw, control, auditors, mode, max_queries, initial_reviews,
          latest_reviews, qa_history, query_count, final_markdown, call,
          calls, report, error, round, task, outcome, completed,
          script, shell, fs, registry, hook, cleanups, auxVars>>

\* the state of run_shell and of the run directory's lifecycle, and auxVars
sysVars == <<script, shell, fs, registry, hook, cleanups, auxVars>>

\* the state of the review rounds and of the arbiter phase
runVars == <<raw, control, auditors, mode, max_queries, initial_reviews,
             latest_reviews, qa_history, query_count, final_markdown, call,
             calls, report, error, round, task, outcome, completed>>

\* runVars without the error the run ended with
reviewVars == <<raw, control, auditors, mode, max_queries, initial_reviews,
                latest_reviews, qa_history, query_count, final_markdown, call,
                calls, report, round, task, outcome, completed>>

-----------------------------------------------------------------------------
(* Bounds *)

MaxRawLen == 4
MaxQueries == 2
MaxCodex == 2
ScriptLen == 5
MaxConfigs == 3
MaxRuns == 2
MaxFollowups == 4

-----------------------------------------------------------------------------
(* Python values: None, str and a non-string JSON scalar *)

None == [ty |-> "none", s |-> <<>>]
Str(t) == [ty |-> "str", s |-> t]
Num == [ty |-> "num", s |-> <<>>]
PyTrue == [ty |-> "bool", s |-> <<"True">>]
PyFalse == [ty |-> "bool", s |-> <<>>]

\* line feed and carriage return as characters of a text
LF == "LF"
CR == "CR"

\* truth value of a Python object (`not x`, `x or y`)
Truthy(v) == \/ v.ty = "num"
             \/ v.ty = "str" /\ v.s # <<>>
             \/ v.ty = "bool" /\ v.s # <<>>

Or(v, w) == IF Truthy(v) THEN v ELSE w

Whitespace == {" "}

RECURSIVE LStrip(_)
LStrip(t) == IF t = <<>> \/ Head(t) \notin Whitespace THEN t ELSE LStrip(Tail(t))

RECURSIVE RStrip(_)
RStrip(t) == IF t = <<>> \/ t[Len(t)] \notin Whitespace THEN t
             ELSE RStrip(SubSeq(t, 1, Len(t) - 1))

\* str.strip()
Strip(t) == RStrip(LStrip(t))

\* str.find / str.rfind, 0 standing for Python's -1 (positions are 1-based)
Find(t, c) == IF \E i \in 1..Len(t) : t[i] = c
              THEN CHOOSE i \in 1..Len(t) : t[i] = c /\ \A j \in 1..(i - 1) : t[j] # c
              ELSE 0

RFind(t, c) == IF \E i \in 1..Len(t) : t[i] = c
               THEN CHOOSE i \in 1..Len(t) : t[i] = c /\ \A j \in (i + 1)..Len(t) : t[j] # c
               ELSE 0

-----------------------------------------------------------------------------
(* dict: insertion-ordered list of {key, val} with distinct keys *)

HasKey(d, k) == \E i \in 1..Len(d) : d[i].key = k

\* dict.get(k, default)
Get(d, k, default) == IF HasKey(d, k)
                      THEN d[CHOOSE i \in 1..Len(d) : d[i].key = k].val
                      ELSE default

\* d[k] = v
DictSet(d, k, v) == IF HasKey(d, k)
                    THEN [i \in 1..Len(d) |-> IF d[i].key = k THEN [key |-> k, val |-> v] ELSE d[i]]
                    ELSE Append(d, [key |-> k, val |-> v])

\* the JSON members an agent may write, as key and value
Member == [tok \in {"S:final", "S:query", "S:other", "S:null",
                    "T:A", "T:G", "T:Z", "T:", "T:null",
                    "Q:q", "Q: q ", "Q: ", "Q:", "Q:null",
                    "F:r", "F: r ", "F:", "F:null", "F:7",
                    "A:t", "A:tLF", "A:uCRv", "A:", "A:null", "A:7",
                    "O:true", "O:false"} |->
    CASE tok = "S:final" -> [key |-> "state", val |-> Str(<<"final">>)]
      [] tok = "S:query" -> [key |-> "state", val |-> Str(<<"query">>)]
      [] tok = "S:other" -> [key |-> "state", val |-> Str(<<"done">>)]
      [] tok = "S:null"  -> [key |-> "state", val |-> None]
      [] tok = "T:A"     -> [key |-> "target_reviewer", val |-> Str(<<"A">>)]
      [] tok = "T:G"     -> [key |-> "target_reviewer", val |-> Str(<<"G">>)]
      [] tok = "T:Z"     -> [key |-> "target_reviewer", val |-> Str(<<"Z">>)]
      [] tok = "T:"      -> [key |-> "target_reviewer", val |-> Str(<<>>)]
      [] tok = "T:null"  -> [key |-> "target_reviewer", val |-> None]
      [] tok = "Q:q"     -> [key |-> "question", val |-> Str(<<"q">>)]
      [] tok = "Q: q "   -> [key |-> "question", val |-> Str(<<" ", "q", " ">>)]
      [] tok = "Q: "     -> [key |-> "question", val |-> Str(<<" ">>)]
      [] tok = "Q:"      -> [key |-> "question", val |-> Str(<<>>)]
      [] tok = "Q:null"  -> [key |-> "question", val |-> None]
      [] tok = "F:r"     -> [key |-> "final_markdown", val |-> Str(<<"r">>)]
      [] tok = "F: r "   -> [key |-> "final_markdown", val |-> Str(<<" ", "r", " ">>)]
      [] tok = "F:"      -> [key |-> "final_markdown", val |-> Str(<<>>)]
      [] tok = "F:null"  -> [key |-> "final_markdown", val |-> None]
      [] tok = "A:t"     -> [key |-> "append", val |-> Str(<<"t">>)]
      [] tok = "A:tLF"   -> [key |-> "append", val |-> Str(<<"t", LF>>)]
      [] tok = "A:uCRv"  -> [key |-> "append", val |-> Str(<<"u", CR, "v">>)]
      [] tok = "A:"      -> [key |-> "append", val |-> Str(<<>>)]
      [] tok = "A:null"  -> [key |-> "append", val |-> None]
      [] tok = "A:7"     -> [key |-> "append", val |-> Num]
      [] tok = "O:true"  -> [key |-> "overwrite", val |-> PyTrue]
      [] tok = "O:false" -> [key |-> "overwrite", val |-> PyFalse]
      [] OTHER           -> [key |-> "final_markdown", val |-> Num]]

MemberTokens == DOMAIN Member
Digits == {"7"}

-----------------------------------------------------------------------------
(* json.loads on token texts: objects of members, arrays, numbers *)

JVal(kind, d) == [kind |-> kind, d |-> d]
JFail == [ok |-> FALSE, v |-> JVal("error", <<>>), next |-> 0]
JOk(v, n) == [ok |-> TRUE, v |-> v, next |-> n]

At(t, i) == IF i \in 1..Len(t) THEN t[i] ELSE "<eof>"

RECURSIVE SkipWs(_, _)
SkipWs(t, i) == IF At(t, i) \in Whitespace THEN SkipWs(t, i + 1) ELSE i

RECURSIVE SkipDigits(_, _)
SkipDigits(t, i) == IF At(t, i) \in Digits THEN SkipDigits(t, i + 1) ELSE i

RECURSIVE ParseValue(_, _)
RECURSIVE ParseMembers(_, _, _)
RECURSIVE ParseElems(_, _)

ParseMembers(t, i, acc) ==
    IF At(t, i) \notin MemberTokens THEN JFail
    ELSE LET m == Member[t[i]]
             d == DictSet(acc, m.key, m.val)
             k == SkipWs(t, i + 1)
         IN  CASE At(t, k) = "," -> ParseMembers(t, SkipWs(t, k + 1), d)
               [] At(t, k) = "}" -> JOk(JVal("dict", d), k + 1)
               [] OTHER -> JFail

ParseElems(t, i) ==
    LET r == ParseValue(t, i)
    IN  IF ~r.ok THEN JFail
        ELSE LET k == SkipWs(t, r.next)
             IN  CASE At(t, k) = "," -> ParseElems(t, SkipWs(t, k + 1))
                   [] At(t, k) = "]" -> JOk(JVal("list", <<>>), k + 1)
                   [] OTHER -> JFail

ParseValue(t, i) ==
    CASE At(t, i) = "{" ->
            LET j == SkipWs(t, i + 1)
            IN  IF At(t, j) = "}" THEN JOk(JVal("dict", <<>>), j + 1)
                ELSE ParseMembers(t, j, <<>>)
      [] At(t, i) = "[" ->
            LET j == SkipWs(t, i + 1)
            IN  IF At(t, j) = "]" THEN JOk(JVal("list", <<>>), j + 1)
                ELSE ParseElems(t, j)
      [] At(t, i) \in Digits -> JOk(JVal("num", <<>>), SkipDigits(t, i))
      [] OTHER -> JFail

\* json.loads(t): the parsed value, or kind "error" where it raises
json_loads(t) ==
    LET r == ParseValue(t, SkipWs(t, 1))
    IN  IF r.ok /\ SkipWs(t, r.next) = Len(t) + 1 THEN r.v ELSE JVal("error", <<>>)

-----------------------------------------------------------------------------
(* parse_arbiter_json *)

\* `try: parsed = json.loads(text) except Exception: pass`
TryLoads(parsed, text) ==
    LET v == json_loads(text) IN IF v.kind = "error" THEN parsed ELSE v

FallbackControl(text) ==
    <<[key |-> "state", val |-> Str(<<"final">>)],
      [key |-> "final_markdown", val |-> Str(text)]>>

CandidateMutFirstClose(text) ==
    LET start == Find(text, "{")
        end == Find(text, "}")
    IN  IF start # 0 /\ end # 0 /\ end > start
        THEN [found |-> TRUE, text |-> SubSeq(text, start, end)]
        ELSE [found |-> FALSE, text |-> <<>>]

\* the block from the first "{" to the last "}"
Candidate(text) ==
    LET start == Find(text, "{")
        end == RFind(text, "}")
    IN  IF start # 0 /\ end # 0 /\ end > start
        THEN [found |-> TRUE, text |-> SubSeq(text, start, end)]
        ELSE [found |-> FALSE, text |-> <<>>]

parse_arbiter_json(rawText) ==
    LET text == Strip(rawText)
        parsed1 == TryLoads(JVal("none", <<>>), text)
        cand == Candidate(text)
        parsed2 == IF parsed1.kind # "dict" /\ cand.found
                   THEN TryLoads(parsed1, cand.text)
                   ELSE parsed1
    IN  IF parsed2.kind = "dict" THEN parsed2.d ELSE FallbackControl(text)

-----------------------------------------------------------------------------
(* Fixed texts of the program *)

ReprVal(v) == CASE v.ty = "str" -> <<"'">> \o v.s \o <<"'">>
                [] v.ty = "none" -> <<"None">>
                [] OTHER -> <<"7">>

RECURSIVE ReprItems(_, _)
ReprItems(d, i) ==
    IF i > Len(d) THEN <<>>
    ELSE (IF i > 1 THEN <<",">> ELSE <<>>) \o <<d[i].key, ":">> \o ReprVal(d[i].val)
         \o ReprItems(d, i + 1)

\* str(control)
Repr(d) == <<"{">> \o ReprItems(d, 1) \o <<"}">>

\* f"{target}"
Format(v) == CASE v.ty = "str" -> v.s
               [] v.ty = "none" -> <<"None">>
               [] OTHER -> <<"7">>

SingleShotError(c) == <<"## Arbiter Error: follow-up questions in single-shot mode">> \o Repr(c)
MaxQueriesError(c) == <<"## Arbiter Error: questions after the max_queries limit">> \o Repr(c)
UnknownReviewer(target, c) ==
    <<"Arbiter referred to unknown reviewer">> \o Format(target) \o <<"Raw control:">> \o Repr(c)
ReplyFailed == <<"## Reply Failed">>
ReviewFailed == <<"## Review Failed">>

-----------------------------------------------------------------------------
(* The roster *)

CodexNames == {<<"A">>, <<"B">>}
GeminiName == <<"G">>

\* the Codex reviewers in configuration order, then the Gemini reviewer
Rosters == {Append(cs, GeminiName) :
               cs \in UNION {[1..n -> CodexNames] : n \in 0..MaxCodex}}

NamesOf(roster) == {roster[i] : i \in 1..Len(roster)}

\* next((a for a in auditors if a.name == target), None); 0 stands for None
FindAuditor(roster, target) ==
    IF target.ty = "str" /\ \E i \in 1..Len(roster) : roster[i] = target.s
    THEN CHOOSE i \in 1..Len(roster) :
             roster[i] = target.s /\ \A j \in 1..(i - 1) : roster[j] # target.s
    ELSE 0

-----------------------------------------------------------------------------
(* The arbiter's decisions: what run_pipeline does with a control object *)

Decision(next, final, target, question, err) ==
    [next |-> next, final |-> final, target |-> target, question |-> question, err |-> err]

Finish(final) == Decision("assemble", final, 0, <<>>, "")
Raise(err) == Decision("raised", None, 0, <<>>, err)

\* control.get("final_markdown", "").strip()
StrippedFinal(c) ==
    LET fm == Get(c, "final_markdown", Str(<<>>))
    IN  IF fm.ty = "str" THEN Finish(Str(Strip(fm.s))) ELSE Raise("AttributeError")

\* control.get("final_markdown", "") or str(control)
FinalOrRepr(c) == Finish(Or(Get(c, "final_markdown", Str(<<>>)), Str(Repr(c))))

\* the query branch of the loop, pipeline.py 764-803 up to the follow-up call
QueryDecision(c, roster) ==
    LET target == Get(c, "target_reviewer", None)
        q == Get(c, "question", Str(<<>>))
    IN  IF q.ty # "str" THEN Raise("AttributeError")
        ELSE LET question == Strip(q.s)
             IN  IF ~Truthy(target) \/ question = <<>> THEN FinalOrRepr(c)
                 ELSE IF FindAuditor(roster, target) = 0
                      THEN Finish(Str(UnknownReviewer(target, c)))
                      ELSE Decision("followup", None, FindAuditor(roster, target), question, "")

LoopDecisionMutFinalOrRepr(c, roster) ==
    LET state == Get(c, "state", None)
    IN  CASE state = Str(<<"final">>) -> FinalOrRepr(c)
          [] state = Str(<<"query">>) -> QueryDecision(c, roster)
          [] OTHER -> FinalOrRepr(c)

\* one iteration of the while loop after run_arbiter_step returned, pipeline.py 755-806
LoopDecision(c, roster) ==
    LET state == Get(c, "state", None)
    IN  CASE state = Str(<<"final">>) -> StrippedFinal(c)
          [] state = Str(<<"query">>) -> QueryDecision(c, roster)
          [] OTHER -> FinalOrRepr(c)

SingleShotDecisionMutFollowup(c) == LoopDecision(c, auditors)

\* single-shot mode, pipeline.py 734-745
SingleShotDecision(c) ==
    IF Get(c, "state", None) = Str(<<"final">>)
    THEN StrippedFinal(c)
    ELSE Finish(Str(SingleShotError(c)))

ForcedDecisionMutLenient(c) == FinalOrRepr(c)

\* the call after the budget is used up, pipeline.py 817-825
ForcedDecision(c) ==
    IF Get(c, "state", None) = Str(<<"final">>)
    THEN FinalOrRepr(c)
    ELSE Finish(Str(MaxQueriesError(c)))

-----------------------------------------------------------------------------
(* Keyword binding of a Python call: every keyword passed must be a        *)
(* parameter and every parameter without a default must be passed,         *)
(* otherwise the call raises TypeError before the callee runs.             *)

Binds(passed, params, required) == passed \subseteq params /\ required \subseteq passed

\* executor.submit(run_auditor_initial_review, ...) against its signature
InitialReviewBinds ==
    Binds({"auditor", "task_description", "context_text", "verbose"},
          {"auditor", "task_description", "context_text", "verbose"},
          {"auditor", "task_description", "context_text"})

\* executor.submit(run_reviewer_peer_round, ...) against its signature
PeerRoundBinds ==
    Binds({"auditor", "task_description", "context_text", "own_review",
           "other_reviews_block", "verbose"},
          {"auditor", "task_description", "context_text", "own_review",
           "other_reviews_block", "round_index", "max_rounds", "verbose"},
          {"auditor", "task_description", "context_text", "own_review",
           "other_reviews_block", "round_index", "max_rounds"})

\* _call_arbiter_step's call of run_arbiter_step against its signature
ArbiterStepBinds ==
    Binds({"arbiter", "task_description", "context_text", "auditors",
           "initial_reviews", "latest_reviews", "qa_history", "max_queries",
           "query_count", "include_p2_p3", "allow_queries", "verbose"},
          {"arbiter", "task_description", "context_text", "auditors",
           "initial_reviews", "qa_history", "max_queries", "query_count",
           "include_p2_p3", "allow_queries", "verbose"},
          {"arbiter", "task_description", "context_text", "auditors",
           "initial_reviews", "qa_history", "max_queries", "query_count"})

\* the call of run_auditor_followup against its signature
FollowupBinds ==
    Binds({"auditor", "task_description", "context_text", "initial_review",
           "question", "qa_snippet", "verbose"},
          {"auditor", "task_description", "context_text", "initial_review",
           "question", "qa_snippet", "verbose"},
          {"auditor", "task_description", "context_text", "initial_review",
           "question", "qa_snippet"})

RoundCallBinds(r) == IF r = "initial" THEN InitialReviewBinds ELSE PeerRoundBinds

-----------------------------------------------------------------------------
(* State shared by the specifications *)

Modes == {"single", "multi"}
NoCall == [kind |-> "none", allow |-> FALSE, target |-> 0, question |-> <<>>]
EmptyMap == [n \in {} |-> <<>>]
NoOutcome == [initial |-> <<>>, peer |-> <<>>]

\* mapping[k] = v
MapSet(m, k, v) == [x \in (DOMAIN m) \cup {k} |-> IF x = k THEN v ELSE m[x]]

TextsUpTo(alphabet, n) == UNION {[1..k -> alphabet] : k \in 0..n}

ParseAlphabet == {"{", "}", "[", "]", " ", "x", "7", "S:final"}

Idle ==
    /\ auditors = <<>>
    /\ mode = "single"
    /\ max_queries = 0
    /\ initial_reviews = EmptyMap
    /\ latest_reviews = EmptyMap
    /\ qa_history = <<>>
    /\ query_count = 0
    /\ final_markdown = None
    /\ call = NoCall
    /\ calls = <<>>
    /\ report = None
    /\ error = ""
    /\ round = "none"
    /\ task = <<>>
    /\ outcome = NoOutcome
    /\ completed = 0

\* run_shell not called
ShellIdle == [status |-> "idle", attempt |-> 0, runs |-> 0, last |-> 0,
              out |-> <<>>, msg |-> [kind |-> "none", code |-> 0, attempts |-> 0]]

\* no run directory, no worktree
NoDir == [exists |-> FALSE, marker |-> FALSE, partial |-> FALSE, worktrees |-> FALSE]

ProgressIdle ==
    /\ progress = <<>>
    /\ progress_lock = "none"
    /\ stop_progress = FALSE
    /\ reporter = <<>>

MoreIdle ==
    /\ worktrees = <<>>
    /\ current_line = 0
    /\ execs = <<>>

ExtIdle ==
    /\ stderr = <<>>
    /\ patch_text = <<>>
    /\ ProgressIdle
    /\ MoreIdle

AuxIdle ==
    /\ ExtIdle
    /\ base_workdir = <<>>
    /\ codex_configs = <<>>
    /\ arbiter_family = ""
    /\ has_git = FALSE
    /\ slug_map = <<>>
    /\ workdirs = <<>>
    /\ memo_files = <<>>
    /\ raw_output = <<>>
    /\ current_memo = <<>>
    /\ cleaned_output = <<>>
    /\ new_memo = <<>>
    /\ qa_snippet = <<>>
    /\ run_id = 0

SysIdle ==
    /\ AuxIdle
    /\ script = <<>>
    /\ shell = ShellIdle
    /\ fs = NoDir
    /\ registry = <<>>
    /\ hook = FALSE
    /\ cleanups = <<>>

-----------------------------------------------------------------------------
(* ParseSpec: parse_arbiter_json on every text of at most MaxRawLen tokens *)

ParseInit ==
    /\ pc = "parse"
    /\ raw \in TextsUpTo(ParseAlphabet, MaxRawLen)
    /\ control = <<>>
    /\ Idle
    /\ SysIdle

ParseArbiterJson ==
    /\ pc = "parse"
    /\ control' = parse_arbiter_json(raw)
    /\ pc' = "parsed"
    /\ UNCHANGED <<raw, auditors, mode, max_queries, initial_reviews, latest_reviews,
                   qa_history, query_count, final_markdown, call, calls, report,
                   error, round, task, outcome, completed>>
    /\ UNCHANGED sysVars

ParseNext == ParseArbiterJson

ParseSpec == ParseInit /\ [][ParseNext]_vars

-----------------------------------------------------------------------------
(* ArbiterSpec: the arbiter phase, pipeline.py 694-871, as a component.    *)
(* It starts where line 694 is reached with both review mappings complete  *)
(* and takes run_arbiter_step by its body (llm_runners.py 258-293): the    *)
(* external call answers or fails, the answer is parsed.  The binding of   *)
(* the call itself is ArbiterStepBinds above; a run of the whole program   *)
(* (Spec) does not get this far.                                           *)
(* pc: "arbiter" (about to call the arbiter), "await_arbiter",             *)
(* "await_followup" (one external call in flight), "assemble",             *)
(* "returned", "raised".                                                   *)

Obj(members) == <<"{">> \o members \o <<"}">>

\* what the arbiter process may print
ArbiterResponses ==
    { Obj(<<"S:final", ",", "F:r">>), Obj(<<"S:final", ",", "F: r ">>),
      Obj(<<"S:final">>), Obj(<<"S:final", ",", "F:">>),
      Obj(<<"S:final", ",", "F:null">>), Obj(<<"S:final", ",", "F:7">>),
      Obj(<<"S:query", ",", "T:A", ",", "Q:q">>),
      Obj(<<"S:query", ",", "T:G", ",", "Q: q ">>),
      Obj(<<"S:query", ",", "T:Z", ",", "Q:q">>),
      Obj(<<"S:query", ",", "T:Z", ",", "Q:">>),
      Obj(<<"S:query", ",", "T:A", ",", "Q: ">>),
      Obj(<<"S:query", ",", "T:A", ",", "Q:">>),
      Obj(<<"S:query", ",", "T:A">>),
      Obj(<<"S:query", ",", "T:", ",", "Q:q">>),
      Obj(<<"S:query", ",", "T:null", ",", "Q:q">>),
      Obj(<<"S:query", ",", "Q:q">>),
      Obj(<<"S:query", ",", "T:A", ",", "Q:null">>),
      Obj(<<"S:query", ",", "T:Z", ",", "Q:null">>),
      Obj(<<"S:query", ",", "T:G", ",", "Q:", ",", "F:r">>),
      Obj(<<"S:other">>), Obj(<<"S:other", ",", "F:r">>), Obj(<<"S:other", ",", "F:7">>),
      Obj(<<"S:null">>), Obj(<<>>), Obj(<<"F:r">>),
      <<"x">>, <<"7">>, <<>>, <<"{", "x">>,
      <<"[", "{", "S:final", ",", "F:r", "}", "]">>,
      <<"x", " ">> \o Obj(<<"S:query", ",", "T:G", ",", "Q:q">>) \o <<" ", "x">> }

\* cleaned answer of a follow-up, or the text run_auditor_followup returns
\* when the external call failed
Answers == {<<"a">>, ReplyFailed}

ArbiterInit ==
    /\ pc = "arbiter"
    /\ raw = <<>>
    /\ control = <<>>
    /\ auditors \in Rosters
    /\ mode \in Modes
    /\ max_queries \in 0..MaxQueries
    /\ initial_reviews = [n \in NamesOf(auditors) |-> <<"review">>]
    /\ latest_reviews = [n \in NamesOf(auditors) |-> <<"updated review">>]
    /\ qa_history = <<>>
    /\ query_count = 0
    /\ final_markdown = None
    /\ call = NoCall
    /\ calls = <<>>
    /\ report = None
    /\ error = ""
    /\ round = "arbiter"
    /\ task = <<>>
    /\ outcome = NoOutcome
    /\ completed = 0
    /\ SysIdle

ArbiterCall(kind, allow) ==
    [kind |-> kind, allow |-> allow, target |-> 0, question |-> <<>>]

LoopGuardMutLeq == query_count <= max_queries

\* `while query_count < max_queries`
LoopGuard == query_count < max_queries

CallArbiterStepMutEager ==
    /\ pc \in {"arbiter", "await_followup"}
    /\ call' = CASE mode = "single" -> ArbiterCall("single", FALSE)
                 [] mode # "single" /\ LoopGuard -> ArbiterCall("loop", TRUE)
                 [] OTHER -> ArbiterCall("forced", FALSE)
    /\ calls' = Append(calls, [kind |-> "arbiter", allow |-> call'.allow, target |-> 0])
    /\ pc' = "await_arbiter"
    /\ UNCHANGED <<raw, control, auditors, mode, max_queries, initial_reviews,
                   latest_reviews, qa_history, query_count, final_markdown, report,
                   error, round, task, outcome, completed>>
    /\ UNCHANGED sysVars

\* _call_arbiter_step is entered: single-shot, loop iteration or forced final
CallArbiterStep ==
    /\ pc = "arbiter"
    /\ call' = CASE mode = "single" -> ArbiterCall("single", FALSE)
                 [] mode # "single" /\ LoopGuard -> ArbiterCall("loop", TRUE)
                 [] OTHER -> ArbiterCall("forced", FALSE)
    /\ calls' = Append(calls, [kind |-> "arbiter", allow |-> call'.allow, target |-> 0])
    /\ pc' = "await_arbiter"
    /\ UNCHANGED <<raw, control, auditors, mode, max_queries, initial_reviews,
                   latest_reviews, qa_history, query_count, final_markdown, report,
                   error, round, task, outcome, completed>>
    /\ UNCHANGED sysVars

DecisionFor(kind, c, roster) ==
    CASE kind = "single" -> SingleShotDecision(c)
      [] kind = "loop" -> LoopDecision(c, roster)
      [] OTHER -> ForcedDecision(c)

\* run_arbiter_step returns the parsed control object and run_pipeline acts on it
ArbiterStepReturns ==
    /\ pc = "await_arbiter"
    /\ \E text \in ArbiterResponses :
        \E c \in {parse_arbiter_json(Strip(text))} :
        \E d \in {DecisionFor(call.kind, c, auditors)} :
            /\ raw' = Strip(text)
            /\ control' = c
            /\ final_markdown' = d.final
            /\ error' = d.err
            /\ IF d.next = "followup"
               THEN /\ call' = [kind |-> "followup", allow |-> FALSE,
                                target |-> d.target, question |-> d.question]
                    /\ calls' = Append(calls, [kind |-> "followup", allow |-> FALSE,
                                               target |-> d.target])
                    /\ pc' = "await_followup"
               ELSE /\ call' = NoCall
                    /\ calls' = calls
                    /\ pc' = d.next
    /\ UNCHANGED <<auditors, mode, max_queries, initial_reviews, latest_reviews,
                   qa_history, query_count, report, round, task, outcome, completed>>
    /\ UNCHANGED sysVars

\* the arbiter's external call times out or exits non-zero four times:
\* run_arbiter_step has no handler, the RuntimeError leaves run_pipeline
ArbiterStepFails ==
    /\ pc = "await_arbiter"
    /\ pc' = "raised"
    /\ error' = "RuntimeError"
    /\ call' = NoCall
    /\ UNCHANGED <<raw, control, auditors, mode, max_queries, initial_reviews,
                   latest_reviews, qa_history, query_count, final_markdown, calls,
                   report, round, task, outcome, completed>>
    /\ UNCHANGED sysVars

FollowupReturnsMutRawQuestion ==
    /\ pc = "await_followup"
    /\ \E answer \in Answers :
        qa_history' = Append(qa_history, [reviewer |-> auditors[call.target],
                                          question |-> Get(control, "question", Str(<<>>)).s,
                                          answer |-> answer])
    /\ query_count' = query_count + 1
    /\ call' = NoCall
    /\ pc' = "arbiter"
    /\ UNCHANGED <<raw, control, auditors, mode, max_queries, initial_reviews,
                   latest_reviews, final_markdown, calls, report, error, round,
                   task, outcome, completed>>
    /\ UNCHANGED sysVars

FollowupReturnsMutAbortOnFailure ==
    /\ pc = "await_followup"
    /\ \E answer \in Answers :
        IF answer = ReplyFailed
        THEN /\ pc' = "raised"
             /\ error' = "RuntimeError"
             /\ UNCHANGED <<qa_history, query_count>>
        ELSE /\ qa_history' = Append(qa_history, [reviewer |-> auditors[call.target],
                                                  question |-> call.question,
                                                  answer |-> answer])
             /\ query_count' = query_count + 1
             /\ pc' = "arbiter"
             /\ error' = error
    /\ call' = NoCall
    /\ UNCHANGED <<raw, control, auditors, mode, max_queries, initial_reviews,
                   latest_reviews, final_markdown, calls, report, round,
                   task, outcome, completed>>
    /\ UNCHANGED sysVars

\* run_auditor_followup returns; the record is appended and the loop goes on
FollowupReturns ==
    /\ pc = "await_followup"
    /\ \E answer \in Answers :
        qa_history' = Append(qa_history, [reviewer |-> auditors[call.target],
                                          question |-> call.question,
                                          answer |-> answer])
    /\ query_count' = query_count + 1
    /\ call' = NoCall
    /\ pc' = "arbiter"
    /\ UNCHANGED <<raw, control, auditors, mode, max_queries, initial_reviews,
                   latest_reviews, final_markdown, calls, report, error, round,
                   task, outcome, completed>>
    /\ UNCHANGED sysVars

\* `return (final_markdown or "").strip()`; the translation call before it
\* either is skipped or fails and is caught, leaving final_markdown as it is
AssembleAndReturn ==
    /\ pc = "assemble"
    /\ LET v == Or(final_markdown, Str(<<>>))
       IN  IF v.ty = "str"
           THEN /\ report' = Str(Strip(v.s))
                /\ error' = error
                /\ pc' = "returned"
           ELSE /\ report' = report
                /\ error' = "AttributeError"
                /\ pc' = "raised"
    /\ UNCHANGED <<raw, control, auditors, mode, max_queries, initial_reviews,
                   latest_reviews, qa_history, query_count, final_markdown, call,
                   calls, round, task, outcome, completed>>
    /\ UNCHANGED sysVars

ArbiterNext ==
    \/ CallArbiterStep
    \/ ArbiterStepReturns
    \/ ArbiterStepFails
    \/ FollowupReturns
    \/ AssembleAndReturn

ArbiterSpec == ArbiterInit /\ [][ArbiterNext]_vars

-----------------------------------------------------------------------------
(* Spec: a whole run of run_pipeline from the first review round,          *)
(* pipeline.py 614-692.  task[i] is the future of reviewer i in the        *)
(* current round: "submitted", "ok", the name of the exception it holds,   *)
(* or "collected" once as_completed has handed it to the main thread.      *)
(* outcome.initial / outcome.peer is future_to_auditor of each round.      *)
(* pc: "submit", "collect", "abort" (the handler re-raised, the pool is    *)
(* shutting down), "raised", "arbiter" (line 694 reached).                 *)

Init ==
    /\ pc = "submit"
    /\ raw = <<>>
    /\ control = <<>>
    /\ auditors \in Rosters
    /\ mode \in Modes
    /\ max_queries \in 0..MaxQueries
    /\ initial_reviews = EmptyMap
    /\ latest_reviews = EmptyMap
    /\ qa_history = <<>>
    /\ query_count = 0
    /\ final_markdown = None
    /\ call = NoCall
    /\ calls = <<>>
    /\ report = None
    /\ error = ""
    /\ round = "initial"
    /\ task = <<>>
    /\ outcome = NoOutcome
    /\ completed = 0
    /\ SysIdle

Failures == {"OSError", "TypeError"}

\* the loop of executor.submit calls: one future per entry of auditors
SubmitRound ==
    /\ pc = "submit"
    /\ task' = [i \in 1..Len(auditors) |-> "submitted"]
    /\ outcome' = [outcome EXCEPT ![round] = auditors]
    /\ calls' = calls \o [i \in 1..Len(auditors) |->
                              [kind |-> round, allow |-> FALSE, target |-> i]]
    /\ completed' = IF round = "initial" THEN 0 ELSE completed
    /\ pc' = "collect"
    /\ UNCHANGED <<raw, control, auditors, mode, max_queries, initial_reviews,
                   latest_reviews, qa_history, query_count, final_markdown, call,
                   report, error, round>>
    /\ UNCHANGED sysVars

TaskResultsMutPropagate(r) ==
    IF RoundCallBinds(r) THEN {"ok", "RuntimeError", "OSError"} ELSE {"TypeError"}

\* what a worker thread leaves in the future: the call is bound first; a
\* bound call returns a review (an external failure is turned into a review
\* text inside the runner) unless a file operation outside the runner's
\* try block (os.makedirs, save_memo) raises OSError
\* "review_failed": run_shell raised (four non-zero exits, or a timeout) and
\* the runner's `except Exception` returned the "## Review Failed" text
TaskResults(r) ==
    IF RoundCallBinds(r) THEN {"ok", "review_failed", "OSError"} ELSE {"TypeError"}

\* futures whose result() returns a review
Returned == {"ok", "review_failed"}

ReviewOf(res, r) ==
    CASE res = "review_failed" -> ReviewFailed
      [] r = "initial" -> <<"review">>
      [] OTHER -> <<"updated review">>

TaskRuns(i) ==
    /\ pc \in {"collect", "abort"}
    /\ task[i] = "submitted"
    /\ \E res \in TaskResults(round) : task' = [task EXCEPT ![i] = res]
    /\ UNCHANGED <<pc, raw, control, auditors, mode, max_queries, initial_reviews,
                   latest_reviews, qa_history, query_count, final_markdown, call,
                   calls, report, error, round, outcome, completed>>
    /\ UNCHANGED sysVars

\* as_completed yields a future whose result() returns
CollectResult(i) ==
    /\ pc = "collect"
    /\ task[i] \in Returned
    /\ task' = [task EXCEPT ![i] = "collected"]
    /\ IF round = "initial"
       THEN /\ initial_reviews' = MapSet(initial_reviews, auditors[i], ReviewOf(task[i], round))
            /\ completed' = completed + 1
            /\ UNCHANGED latest_reviews
       ELSE /\ latest_reviews' = MapSet(latest_reviews, auditors[i], ReviewOf(task[i], round))
            /\ UNCHANGED <<initial_reviews, completed>>
    /\ UNCHANGED <<pc, raw, control, auditors, mode, max_queries, qa_history,
                   query_count, final_markdown, call, calls, report, error, round,
                   outcome>>
    /\ UNCHANGED sysVars

\* as_completed yields a future whose result() raises: `except ...: raise`
ObserveFailure(i) ==
    /\ pc = "collect"
    /\ task[i] \in Failures
    /\ error' = task[i]
    /\ pc' = "abort"
    /\ UNCHANGED <<raw, control, auditors, mode, max_queries, initial_reviews,
                   latest_reviews, qa_history, query_count, final_markdown, call,
                   calls, report, round, task, outcome, completed>>
    /\ UNCHANGED sysVars

\* leaving the `with ThreadPoolExecutor` block on the exception waits for
\* every submitted task, then the exception leaves run_pipeline
PoolShutdown ==
    /\ pc = "abort"
    /\ \A i \in 1..Len(task) : task[i] # "submitted"
    /\ pc' = "raised"
    /\ UNCHANGED <<raw, control, auditors, mode, max_queries, initial_reviews,
                   latest_reviews, qa_history, query_count, final_markdown, call,
                   calls, report, error, round, task, outcome, completed>>
    /\ UNCHANGED sysVars

RoundDoneMutSkipFailed ==
    /\ pc = "collect"
    /\ \A i \in 1..Len(task) : task[i] \in {"collected"} \cup Failures
    /\ IF round = "initial"
       THEN round' = "peer" /\ pc' = "submit"
       ELSE round' = "arbiter" /\ pc' = "arbiter"
    /\ UNCHANGED <<raw, control, auditors, mode, max_queries, initial_reviews,
                   latest_reviews, qa_history, query_count, final_markdown, call,
                   calls, report, error, task, outcome, completed>>
    /\ UNCHANGED sysVars

RoundDoneMutFirstCompleted ==
    /\ pc = "collect"
    /\ \E i \in 1..Len(task) : task[i] = "collected"
    /\ IF round = "initial"
       THEN round' = "peer" /\ pc' = "submit"
       ELSE round' = "arbiter" /\ pc' = "arbiter"
    /\ UNCHANGED <<raw, control, auditors, mode, max_queries, initial_reviews,
                   latest_reviews, qa_history, query_count, final_markdown, call,
                   calls, report, error, task, outcome, completed>>
    /\ UNCHANGED sysVars

\* as_completed is exhausted: every future was collected
RoundDone ==
    /\ pc = "collect"
    /\ \A i \in 1..Len(task) : task[i] = "collected"
    /\ IF round = "initial"
       THEN round' = "peer" /\ pc' = "submit"
       ELSE round' = "arbiter" /\ pc' = "arbiter"
    /\ UNCHANGED <<raw, control, auditors, mode, max_queries, initial_reviews,
                   latest_reviews, qa_history, query_count, final_markdown, call,
                   calls, report, error, task, outcome, completed>>
    /\ UNCHANGED sysVars

Next ==
    \/ SubmitRound
    \/ \E i \in 1..Len(auditors) : TaskRuns(i)
    \/ \E i \in 1..Len(auditors) : CollectResult(i)
    \/ \E i \in 1..Len(auditors) : ObserveFailure(i)
    \/ PoolShutdown
    \/ RoundDone

Spec == Init /\ [][Next]_vars

-----------------------------------------------------------------------------
(* ShellSpec: one call of run_shell, shell_utils.py 30-86, against every    *)
(* script of what the external process does on successive attempts.        *)
(* shell.attempt is the loop variable, shell.runs the number of            *)
(* subprocess.run calls made, shell.last the return code of last_result.   *)

max_retries == 3

\* what one subprocess.run does: exits with a return code, or times out
Exit(rc) == [kind |-> "exit", rc |-> rc]
TimedOut == [kind |-> "timeout", rc |-> 0]
Outcomes == {Exit(0), Exit(1), Exit(2), TimedOut}

\* stdout of the process started by the n-th subprocess.run
OutTokens == <<"out1", "out2", "out3", "out4", "out5", "out6">>
Stdout(n) == <<" ", OutTokens[n], " ">>

TimeoutMessage == [kind |-> "timeout", code |-> 0, attempts |-> 0]
FailedMessage(rc) == [kind |-> "failed", code |-> rc, attempts |-> max_retries + 1]

ShellInit ==
    /\ pc = "shell"
    /\ raw = <<>>
    /\ control = <<>>
    /\ Idle
    /\ script \in [1..ScriptLen -> Outcomes]
    /\ shell = [ShellIdle EXCEPT !.status = "running"]
    /\ fs = NoDir
    /\ registry = <<>>
    /\ hook = FALSE
    /\ cleanups = <<>>
    /\ AuxIdle

\* the attempt the loop is about to make
Upcoming == script[shell.runs + 1]

InLoop == pc = "shell" /\ shell.status = "running" /\ shell.attempt <= max_retries

\* subprocess.run returns with returncode 0: `return result.stdout.strip()`
AttemptSucceeds ==
    /\ InLoop
    /\ Upcoming = Exit(0)
    /\ shell' = [shell EXCEPT !.status = "returned", !.runs = @ + 1,
                              !.out = Strip(Stdout(shell.runs + 1))]
    /\ pc' = "shell_done"
    /\ UNCHANGED <<script, fs, registry, hook, cleanups>>
    /\ UNCHANGED runVars
    /\ UNCHANGED auxVars

AttemptTimesOutMutRetry ==
    /\ InLoop
    /\ Upcoming = TimedOut
    /\ IF shell.attempt < max_retries
       THEN /\ shell' = [shell EXCEPT !.runs = @ + 1, !.attempt = @ + 1]
            /\ pc' = pc
       ELSE /\ shell' = [shell EXCEPT !.status = "raised", !.runs = @ + 1,
                                     !.msg = TimeoutMessage]
            /\ pc' = "shell_done"
    /\ UNCHANGED <<script, fs, registry, hook, cleanups>>
    /\ UNCHANGED runVars
    /\ UNCHANGED auxVars

\* subprocess.run raises TimeoutExpired: RuntimeError, no retry
AttemptTimesOut ==
    /\ InLoop
    /\ Upcoming = TimedOut
    /\ shell' = [shell EXCEPT !.status = "raised", !.runs = @ + 1,
                              !.msg = TimeoutMessage]
    /\ pc' = "shell_done"
    /\ UNCHANGED <<script, fs, registry, hook, cleanups>>
    /\ UNCHANGED runVars
    /\ UNCHANGED auxVars

AttemptFailsMutTwoRetries ==
    /\ InLoop
    /\ Upcoming.kind = "exit" /\ Upcoming.rc # 0
    /\ IF shell.attempt < max_retries - 1
       THEN /\ shell' = [shell EXCEPT !.runs = @ + 1, !.last = Upcoming.rc,
                                     !.attempt = @ + 1]
            /\ pc' = pc
       ELSE /\ shell' = [shell EXCEPT !.status = "raised", !.runs = @ + 1,
                                     !.last = Upcoming.rc,
                                     !.msg = FailedMessage(Upcoming.rc)]
            /\ pc' = "shell_done"
    /\ UNCHANGED <<script, fs, registry, hook, cleanups>>
    /\ UNCHANGED runVars
    /\ UNCHANGED auxVars

AttemptFailsMutExtraAttempt ==
    /\ pc = "shell" /\ shell.status = "running"
    /\ Upcoming.kind = "exit" /\ Upcoming.rc # 0
    /\ IF shell.attempt <= max_retries
       THEN /\ shell' = [shell EXCEPT !.runs = @ + 1, !.last = Upcoming.rc,
                                     !.attempt = @ + 1]
            /\ pc' = pc
       ELSE /\ shell' = [shell EXCEPT !.status = "raised", !.runs = @ + 1,
                                     !.last = Upcoming.rc,
                                     !.msg = FailedMessage(Upcoming.rc)]
            /\ pc' = "shell_done"
    /\ UNCHANGED <<script, fs, registry, hook, cleanups>>
    /\ UNCHANGED runVars
    /\ UNCHANGED auxVars

\* subprocess.run returns a non-zero returncode: last_result is kept; the
\* loop goes on while attempt < max_retries, else it ends and the call raises
AttemptFails ==
    /\ InLoop
    /\ Upcoming.kind = "exit" /\ Upcoming.rc # 0
    /\ IF shell.attempt < max_retries
       THEN /\ shell' = [shell EXCEPT !.runs = @ + 1, !.last = Upcoming.rc,
                                     !.attempt = @ + 1]
            /\ pc' = pc
       ELSE /\ shell' = [shell EXCEPT !.status = "raised", !.runs = @ + 1,
                                     !.last = Upcoming.rc,
                                     !.msg = FailedMessage(Upcoming.rc)]
            /\ pc' = "shell_done"
    /\ UNCHANGED <<script, fs, registry, hook, cleanups>>
    /\ UNCHANGED runVars
    /\ UNCHANGED auxVars

ShellNext ==
    \/ AttemptSucceeds
    \/ AttemptTimesOut
    \/ AttemptFails

ShellSpec == ShellInit /\ [][ShellNext]_vars

-----------------------------------------------------------------------------
(* RunSpec: the life of one run directory, pipeline.py 353-395 and 843-871  *)
(* with the exit hook 224-234.  fs is the run directory: whether it         *)
(* exists, whether it holds the marker file, whether a failed recursive     *)
(* delete has left it partly deleted, and whether a git worktree rooted     *)
(* under it is registered in the repository.  cleanups logs every cleanup   *)
(* site reached: the directory before and after, and what the site did.     *)

(* Paths are texts of one-character tokens, "/" the separator.  The      *)
(* process runs in RepoRoot; Symlinks are the symbolic links on disk.     *)

RepoRoot == <<"/", "r">>

Symlinks ==
    [p \in {<<"/", "r", "/", "l">>, <<"/", "r", "/", "s">>, <<"/", "r", "/", "i">>} |->
        CASE p = <<"/", "r", "/", "l">> -> <<"/", "o">>
          [] p = <<"/", "r", "/", "s">> -> <<"/", "r">>
          [] OTHER -> <<"/", "r", "/", "w">>]

\* the values of --auditors-workdir: relative and absolute, inside the
\* repository, the repository itself, outside it, through links and ".."
BaseWorkdirs ==
    { <<"w">>, <<"w", "/", "d">>, <<"i">>, <<"/", "r", "/", "w">>,
      <<>>, <<".">>, <<"s">>, <<"w", "/", ".", ".">>,
      <<".", ".">>, <<"l">>, <<"/", "o">>, <<"/", "r", "x">>, <<"/", "r", "x", "/", "w">> }

\* os.path.isabs, os.path.join
IsAbs(p) == p # <<>> /\ p[1] = "/"
PathJoin(a, b) ==
    IF IsAbs(b) THEN b
    ELSE IF a # <<>> /\ a[Len(a)] = "/" THEN a \o b ELSE a \o <<"/">> \o b

\* the non-empty components of a path
RECURSIVE SplitPath(_, _, _)
SplitPath(p, cur, acc) ==
    IF p = <<>> THEN (IF cur = <<>> THEN acc ELSE Append(acc, cur))
    ELSE IF Head(p) = "/"
         THEN SplitPath(Tail(p), <<>>, IF cur = <<>> THEN acc ELSE Append(acc, cur))
         ELSE SplitPath(Tail(p), Append(cur, Head(p)), acc)

RECURSIVE PathOf(_)
PathOf(comps) == IF comps = <<>> THEN <<>> ELSE <<"/">> \o Head(comps) \o PathOf(Tail(comps))

AbsPath(comps) == IF comps = <<>> THEN <<"/">> ELSE PathOf(comps)

\* os.path.realpath component by component: "." dropped, ".." steps up,
\* a symbolic link is replaced by its target
RECURSIVE Resolve(_, _)
Resolve(todo, acc) ==
    IF todo = <<>> THEN acc
    ELSE IF Head(todo) = <<".">> THEN Resolve(Tail(todo), acc)
    ELSE IF Head(todo) = <<".", ".">>
         THEN Resolve(Tail(todo), IF acc = <<>> THEN acc ELSE SubSeq(acc, 1, Len(acc) - 1))
    ELSE IF AbsPath(Append(acc, Head(todo))) \in DOMAIN Symlinks
         THEN Resolve(SplitPath(Symlinks[AbsPath(Append(acc, Head(todo)))], <<>>, <<>>)
                        \o Tail(todo), <<>>)
         ELSE Resolve(Tail(todo), Append(acc, Head(todo)))

realpath(p) == AbsPath(Resolve(SplitPath(p, <<>>, <<>>), <<>>))

\* str.startswith
StartsWith(t, prefix) == Len(t) >= Len(prefix) /\ SubSeq(t, 1, Len(prefix)) = prefix

\* 339-342: the candidate the given workdir resolves to
Candidate_workdir(b) ==
    IF IsAbs(b) THEN realpath(b) ELSE realpath(PathJoin(RepoRoot, b))

RefusedMutNoSeparator(b) ==
    \/ Candidate_workdir(b) = realpath(RepoRoot)
    \/ ~StartsWith(Candidate_workdir(b), realpath(RepoRoot))

\* 344-345: `candidate == repo_root_real or not
\* candidate.startswith(repo_root_real + os.sep)`
Refused(b) ==
    \/ Candidate_workdir(b) = realpath(RepoRoot)
    \/ ~StartsWith(Candidate_workdir(b), realpath(RepoRoot) \o <<"/">>)

RunPath == "run"

Dir(m, w) == [exists |-> TRUE, marker |-> m, partial |-> FALSE, worktrees |-> w]

\* what may be at the run path when run_pipeline starts
PreExisting == {NoDir} \cup {Dir(m, w) : m \in BOOLEAN, w \in BOOLEAN}

\* _remove_worktrees_under: `git worktree remove --force` with check=False,
\* best effort: the worktree is unregistered, or git fails and it stays
RemoveWorktrees(d) == IF d.worktrees THEN {[d EXCEPT !.worktrees = FALSE], d} ELSE {d}

\* shutil.rmtree: the tree is gone, or it raises part-way (Exception is
\* caught, a warning is written) with the marker already deleted or not yet
RmTree(d) ==
    {[d EXCEPT !.exists = FALSE, !.marker = FALSE, !.partial = FALSE]}
        \cup {[d EXCEPT !.partial = TRUE, !.marker = m] : m \in BOOLEAN}

\* _cleanup_run_workdir: worktrees first, then the tree; never raises
CleanupRunWorkdir(d) == UNION {RmTree(w) : w \in RemoveWorktrees(d)}

CleanupResult(after) == IF after.exists THEN "partial" ELSE "removed"

Logged(site, before, after, result) ==
    cleanups' = Append(cleanups, [site |-> site, had |-> before,
                                  left |-> after, result |-> result])

\* 336-351: the workdir root must resolve to a directory strictly inside
\* the repository, else SystemExit before anything is created
ValidateWorkdir ==
    /\ pc = "run_validate"
    /\ IF Refused(base_workdir)
       THEN pc' = "run_aborted" /\ error' = "SystemExit: workdir not inside repo"
       ELSE pc' = "run_start" /\ UNCHANGED error
    /\ UNCHANGED <<script, shell, fs, registry, hook, cleanups>>
    /\ UNCHANGED reviewVars
    /\ UNCHANGED auxVars

\* 357-369: os.makedirs of the workdir root; the run path is put in the
\* registry and the exit hook installed
RegisterRun ==
    /\ pc = "run_start"
    /\ registry' = Append(registry, RunPath)
    /\ hook' = TRUE
    /\ pc' = "run_check"
    /\ UNCHANGED <<script, shell, fs, cleanups>>
    /\ UNCHANGED runVars
    /\ UNCHANGED auxVars

StartupCheckMutWarn ==
    /\ pc = "run_check"
    /\ IF ~fs.exists
       THEN /\ pc' = "run_context"
            /\ UNCHANGED <<fs, cleanups, error>>
       ELSE IF ~fs.marker
       THEN /\ pc' = "run_context"
            /\ Logged("startup", fs, fs, "warned")
            /\ UNCHANGED <<fs, error>>
       ELSE \E after \in CleanupRunWorkdir(fs) :
                /\ fs' = after
                /\ Logged("startup", fs, after, CleanupResult(after))
                /\ pc' = "run_context"
                /\ UNCHANGED error
    /\ UNCHANGED <<script, shell, registry, hook>>
    /\ UNCHANGED reviewVars
    /\ UNCHANGED auxVars

\* 371-382: a directory already at the run path is cleaned up if it holds
\* the marker; without the marker SystemExit "Refusing to delete ..."
StartupCheck ==
    /\ pc = "run_check"
    /\ IF ~fs.exists
       THEN /\ pc' = "run_context"
            /\ UNCHANGED <<fs, cleanups, error>>
       ELSE IF ~fs.marker
       THEN /\ pc' = "run_aborted"
            /\ error' = "SystemExit: refusing to delete"
            /\ Logged("startup", fs, fs, "raised")
            /\ UNCHANGED fs
       ELSE \E after \in CleanupRunWorkdir(fs) :
                /\ fs' = after
                /\ Logged("startup", fs, after, CleanupResult(after))
                /\ pc' = "run_context"
                /\ UNCHANGED error
    /\ UNCHANGED <<script, shell, registry, hook>>
    /\ UNCHANGED reviewVars
    /\ UNCHANGED auxVars

\* 384-389: resolve_context_text; git failing raises SystemExit
PrepareContext ==
    /\ pc = "run_context"
    /\ \/ pc' = "run_stamp" /\ UNCHANGED error
       \/ pc' = "run_aborted" /\ error' = "SystemExit: context"
    /\ UNCHANGED sysVars
    /\ UNCHANGED reviewVars
    /\ UNCHANGED auxVars

\* 392-395: os.makedirs(exist_ok=True), then the marker file is written
StampMarker ==
    /\ pc = "run_stamp"
    /\ fs' = [fs EXCEPT !.exists = TRUE, !.marker = TRUE]
    /\ pc' = "run_setup"
    /\ UNCHANGED <<script, shell, registry, hook, cleanups>>
    /\ UNCHANGED runVars
    /\ UNCHANGED auxVars

StagesAfterStamp == <<"run_setup", "run_rounds", "run_arbiter", "run_teardown">>
StageErrors == [run_setup |-> "SystemExit: sandbox setup",
                run_rounds |-> "round failed",
                run_arbiter |-> "arbiter call failed"]

\* 443-612: the reviewers' workspaces; in a git repository each is a
\* worktree under the run directory (_create_worktree, 513 and 560), and
\* _run_git raises SystemExit on failure, before or after a worktree exists
SandboxSetup ==
    /\ pc = "run_setup"
    /\ \E w \in BOOLEAN : fs' = [fs EXCEPT !.worktrees = @ \/ w]
    /\ \/ pc' = "run_rounds" /\ UNCHANGED error
       \/ pc' = "run_aborted" /\ error' = StageErrors.run_setup
    /\ UNCHANGED <<script, shell, registry, hook, cleanups>>
    /\ UNCHANGED reviewVars
    /\ UNCHANGED auxVars

\* 614-692 and 694-825: the review rounds, then the arbiter phase; an
\* exception of either leaves run_pipeline at once (no try/finally)
BodyStage ==
    /\ \E i \in 2..3 :
        /\ pc = StagesAfterStamp[i]
        /\ \/ pc' = StagesAfterStamp[i + 1] /\ UNCHANGED error
           \/ pc' = "run_aborted" /\ error' = StageErrors[StagesAfterStamp[i]]
    /\ UNCHANGED sysVars
    /\ UNCHANGED reviewVars
    /\ UNCHANGED auxVars

\* a reviewer process working inside the run directory (or the user)
\* deletes the marker file while the run is under way
MarkerRemoved ==
    /\ pc \in {"run_rounds", "run_arbiter"}
    /\ fs.marker
    /\ fs' = [fs EXCEPT !.marker = FALSE]
    /\ UNCHANGED <<pc, script, shell, registry, hook, cleanups>>
    /\ UNCHANGED runVars
    /\ UNCHANGED auxVars

TeardownMutNoMarkerCheck ==
    /\ pc = "run_teardown"
    /\ IF ~fs.exists
       THEN UNCHANGED <<fs, cleanups>>
       ELSE \E after \in CleanupRunWorkdir(fs) :
                /\ fs' = after
                /\ Logged("teardown", fs, after, CleanupResult(after))
    /\ registry' = SelectSeq(registry, LAMBDA p : p # RunPath)
    /\ pc' = "run_returned"
    /\ UNCHANGED <<script, shell, hook>>
    /\ UNCHANGED runVars
    /\ UNCHANGED auxVars

TeardownMutKeepWhenLeft ==
    /\ pc = "run_teardown"
    /\ IF ~fs.exists
       THEN UNCHANGED <<fs, cleanups>> /\ registry' = SelectSeq(registry, LAMBDA p : p # RunPath)
       ELSE IF ~fs.marker
       THEN /\ Logged("teardown", fs, fs, "warned")
            /\ UNCHANGED <<fs, registry>>
       ELSE \E after \in CleanupRunWorkdir(fs) :
                /\ fs' = after
                /\ Logged("teardown", fs, after, CleanupResult(after))
                /\ registry' = SelectSeq(registry, LAMBDA p : p # RunPath)
    /\ pc' = "run_returned"
    /\ UNCHANGED <<script, shell, hook>>
    /\ UNCHANGED runVars
    /\ UNCHANGED auxVars

\* 843-861: end-of-run teardown: with the marker the directory is cleaned
\* up, without it a warning is printed and it is left in place; then the
\* run path leaves the registry and run_pipeline returns
Teardown ==
    /\ pc = "run_teardown"
    /\ IF ~fs.exists
       THEN UNCHANGED <<fs, cleanups>>
       ELSE IF ~fs.marker
       THEN /\ Logged("teardown", fs, fs, "warned")
            /\ UNCHANGED fs
       ELSE \E after \in CleanupRunWorkdir(fs) :
                /\ fs' = after
                /\ Logged("teardown", fs, after, CleanupResult(after))
    /\ registry' = SelectSeq(registry, LAMBDA p : p # RunPath)
    /\ pc' = "run_returned"
    /\ UNCHANGED <<script, shell, hook>>
    /\ UNCHANGED runVars
    /\ UNCHANGED auxVars

\* 224-234, at interpreter exit after run_pipeline returned or raised: every
\* registered path that is a directory holding the marker is cleaned up,
\* any other is passed over without a word; each entry is then dropped
AtexitCleanupRunWorkdirs ==
    /\ pc \in {"run_returned", "run_aborted"}
    /\ hook
    /\ IF registry = <<>> \/ ~fs.exists
       THEN UNCHANGED <<fs, cleanups>>
       ELSE IF ~fs.marker
       THEN /\ Logged("atexit", fs, fs, "skipped")
            /\ UNCHANGED fs
       ELSE \E after \in CleanupRunWorkdir(fs) :
                /\ fs' = after
                /\ Logged("atexit", fs, after, CleanupResult(after))
    /\ registry' = <<>>
    /\ pc' = "exited"
    /\ UNCHANGED <<script, shell, hook>>
    /\ UNCHANGED runVars
    /\ UNCHANGED auxVars

RunInit ==
    /\ pc = "run_validate"
    /\ raw = <<>>
    /\ control = <<>>
    /\ Idle
    /\ script = <<>>
    /\ shell = ShellIdle
    /\ fs \in PreExisting
    /\ registry = <<>>
    /\ hook = FALSE
    /\ cleanups = <<>>
    /\ base_workdir \in BaseWorkdirs
    /\ codex_configs = <<>>
    /\ arbiter_family = ""
    /\ has_git = FALSE
    /\ slug_map = <<>>
    /\ workdirs = <<>>
    /\ memo_files = <<>>
    /\ raw_output = <<>>
    /\ current_memo = <<>>
    /\ cleaned_output = <<>>
    /\ new_memo = <<>>
    /\ qa_snippet = <<>>
    /\ run_id = 0
    /\ ExtIdle

RunNext ==
    \/ ValidateWorkdir
    \/ RegisterRun
    \/ StartupCheck
    \/ PrepareContext
    \/ StampMarker
    \/ SandboxSetup
    \/ BodyStage
    \/ MarkerRemoved
    \/ Teardown
    \/ AtexitCleanupRunWorkdirs

RunSpec == RunInit /\ [][RunNext]_vars

-----------------------------------------------------------------------------
(* SetupSpec: the workspaces of one run, pipeline.py 441-612, for every     *)
(* list of at most MaxConfigs Codex configurations.  Names and slugs are    *)
(* texts of tokens; a token is a run of characters that are all safe for    *)
(* slugify ([a-zA-Z0-9._-]) or a single unsafe character.  workdirs lists   *)
(* the agents in set-up order with the directory each was given, relative   *)
(* to the run directory.                                                    *)

UnsafeTokens == {"[", "]", "|", "/", " "}

\* auditors.slugify: re.sub(r"[^a-zA-Z0-9._-]+", "_", name), or "auditor"
RECURSIVE SubUnsafe(_, _)
SubUnsafe(t, inRun) ==
    IF t = <<>> THEN <<>>
    ELSE IF Head(t) \in UnsafeTokens
         THEN (IF inRun THEN <<>> ELSE <<"_">>) \o SubUnsafe(Tail(t), TRUE)
         ELSE <<Head(t)>> \o SubUnsafe(Tail(t), FALSE)

slugify(name) == IF SubUnsafe(name, FALSE) = <<>> THEN <<"auditor">> ELSE SubUnsafe(name, FALSE)

CounterToken == <<"1", "2", "3", "4", "5", "6", "7", "8", "9">>

\* used.values()
Values(used) == {used[k] : k \in DOMAIN used}

\* the while loop of _unique_slug from counter on
RECURSIVE FirstFree(_, _, _)
FirstFree(base, counter, used) ==
    IF base \o <<"-", CounterToken[counter]>> \in Values(used)
    THEN FirstFree(base, counter + 1, used)
    ELSE base \o <<"-", CounterToken[counter]>>

\* _unique_slug, 37-54: the slug it returns; it then sets used[name] = slug
unique_slug(name, used) ==
    IF slugify(name) \notin Values(used) THEN slugify(name)
    ELSE FirstFree(slugify(name), 2, used)

\* f"Codex[{model_name}|{effort}]", f"Gemini[{gemini_model}]" and the arbiters
CodexName(cfg) == <<"Codex", "[">> \o cfg.model \o <<"|", cfg.effort, "]">>
ArbiterModel == <<"gpt-5.1-codex">>
ArbiterEffort == "low"
CodexArbiterName == <<"Arbiter-">> \o CodexName([model |-> ArbiterModel, effort |-> ArbiterEffort])
gemini_model == <<"g">>
GeminiReviewerName == <<"Gemini", "[">> \o gemini_model \o <<"]">>
GeminiArbiterName == <<"Gemini-Arbiter", "[">> \o gemini_model \o <<"]">>

Configs == [model : {<<"m">>, <<"m", "/">>, ArbiterModel}, effort : {"high", ArbiterEffort}]

\* 447-459: with a Codex arbiter, gpt-5.1-codex|low is not used as a reviewer
codex_auditor_configsMutKeepReserved == codex_configs

codex_auditor_configs ==
    IF arbiter_family = "codex"
    THEN SelectSeq(codex_configs,
                   LAMBDA c : ~(c.model = ArbiterModel /\ c.effort = ArbiterEffort))
    ELSE codex_configs

\* a reviewer works in <slug>/repo when the repository is a git one (a
\* worktree), in <slug> otherwise (a copy); an arbiter always in <slug>
\* view: what provisioning puts into the directory, a detached worktree
\* with the patch applied (510-531), a copy of the tree (533-537), or
\* nothing (os.makedirs only, 471 and 595)
WorkspaceMutArbiterAsReviewer(role, name, slug) ==
    [role |-> role, name |-> name, slug |-> slug,
     dir |-> IF has_git THEN slug \o <<"/", "repo">> ELSE slug,
     view |-> IF has_git THEN "worktree" ELSE "copy"]

Workspace(role, name, slug) ==
    [role |-> role, name |-> name, slug |-> slug,
     dir |-> IF has_git /\ role # "arbiter" THEN slug \o <<"/", "repo">> ELSE slug,
     view |-> IF role = "arbiter" THEN "none" ELSE IF has_git THEN "worktree" ELSE "copy"]

DirsInUse == {workdirs[i].dir : i \in 1..Len(workdirs)}

SetupInit ==
    /\ pc = "setup_arbiter"
    /\ raw = <<>>
    /\ control = <<>>
    /\ Idle
    /\ script = <<>>
    /\ shell = ShellIdle
    /\ fs = NoDir
    /\ registry = <<>>
    /\ hook = FALSE
    /\ cleanups = <<>>
    /\ base_workdir = <<>>
    /\ codex_configs \in UNION {[1..n -> Configs] : n \in 0..MaxConfigs}
    /\ arbiter_family \in {"codex", "gemini"}
    /\ has_git \in BOOLEAN
    /\ slug_map = <<>>
    /\ workdirs = <<>>
    /\ memo_files = <<>>
    /\ raw_output = <<>>
    /\ current_memo = <<>>
    /\ cleaned_output = <<>>
    /\ new_memo = <<>>
    /\ qa_snippet = <<>>
    /\ run_id = 0
    /\ ExtIdle

SetupFrame ==
    /\ UNCHANGED <<script, shell, fs, registry, hook, cleanups>>
    /\ UNCHANGED reviewVars
    /\ UNCHANGED <<base_workdir, codex_configs, arbiter_family, has_git, memo_files,
                   raw_output, current_memo, cleaned_output, new_memo, qa_snippet, run_id>>
    /\ UNCHANGED extVars

\* an agent named name is given the directory of its slug: os.makedirs
\* (arbiter) and copytree(dirs_exist_ok=True) accept a directory that is
\* there already, `git worktree add` does not and _run_git raises SystemExit
Provision(role, name, next) ==
    \E slug \in {unique_slug(name, slug_map)} :
        /\ slug_map' = MapSet(slug_map, name, slug)
        /\ IF has_git /\ role # "arbiter" /\ Workspace(role, name, slug).dir \in DirsInUse
           THEN /\ pc' = "setup_aborted"
                /\ error' = "SystemExit: git worktree add"
                /\ UNCHANGED workdirs
           ELSE /\ pc' = next
                /\ workdirs' = Append(workdirs, Workspace(role, name, slug))
                /\ UNCHANGED error

\* 461-477: the Codex arbiter's workspace comes first
SetupCodexArbiter ==
    /\ pc = "setup_arbiter"
    /\ IF arbiter_family = "codex"
       THEN Provision("arbiter", CodexArbiterName, "setup_codex")
       ELSE pc' = "setup_codex" /\ UNCHANGED <<slug_map, workdirs, error>>
    /\ SetupFrame

\* the Codex reviewers set up so far
CodexDone == Len(SelectSeq(workdirs, LAMBDA w : w.role = "codex"))

\* 504-548: one iteration of the loop over codex_auditor_configs
SetupCodexAuditor ==
    /\ pc = "setup_codex"
    /\ CodexDone < Len(codex_auditor_configs)
    /\ Provision("codex", CodexName(codex_auditor_configs[CodexDone + 1]), "setup_codex")
    /\ SetupFrame

\* 550-588: the Gemini reviewer
SetupGeminiAuditor ==
    /\ pc = "setup_codex"
    /\ CodexDone = Len(codex_auditor_configs)
    /\ Provision("gemini", GeminiReviewerName, "setup_gemini_arbiter")
    /\ SetupFrame

\* 590-602: the Gemini arbiter's workspace comes last
SetupGeminiArbiter ==
    /\ pc = "setup_gemini_arbiter"
    /\ IF arbiter_family = "gemini"
       THEN Provision("arbiter", GeminiArbiterName, "setup_done")
       ELSE pc' = "setup_done" /\ UNCHANGED <<slug_map, workdirs, error>>
    /\ SetupFrame

SetupNext ==
    \/ SetupCodexArbiter
    \/ SetupCodexAuditor
    \/ SetupGeminiAuditor
    \/ SetupGeminiArbiter

SetupSpec == SetupInit /\ [][SetupNext]_vars

-----------------------------------------------------------------------------
(* MemoSpec: one reviewer call as the runners make it (llm_runners.py       *)
(* 76-108): load_memo, then extract_and_update_memo on the answer, then     *)
(* the load_memo of the reviewer's next call; auditors.py 29-93.            *)
(* memo_files maps a path to the characters the file holds.  The host is    *)
(* a POSIX one: os.linesep is a line feed.                                  *)

PyWhitespace == {" ", LF, CR}

RECURSIVE LStripWs(_)
LStripWs(t) == IF t = <<>> \/ Head(t) \notin PyWhitespace THEN t ELSE LStripWs(Tail(t))

RECURSIVE RStripWs(_)
RStripWs(t) == IF t = <<>> \/ t[Len(t)] \notin PyWhitespace THEN t
               ELSE RStripWs(SubSeq(t, 1, Len(t) - 1))

\* str.strip() on a text that may hold line ends
StripWs(t) == RStripWs(LStripWs(t))

\* str.splitlines(): a line ends at LF, CR or CR LF; no empty last line
RECURSIVE SplitLines(_, _, _)
SplitLines(t, cur, acc) ==
    IF t = <<>> THEN (IF cur = <<>> THEN acc ELSE Append(acc, cur))
    ELSE IF Head(t) = CR /\ Len(t) > 1 /\ t[2] = LF
         THEN SplitLines(Tail(Tail(t)), <<>>, Append(acc, cur))
    ELSE IF Head(t) \in {LF, CR}
         THEN SplitLines(Tail(t), <<>>, Append(acc, cur))
    ELSE SplitLines(Tail(t), Append(cur, Head(t)), acc)

\* "\n".join(lines)
RECURSIVE JoinLines(_)
JoinLines(lines) ==
    IF lines = <<>> THEN <<>>
    ELSE IF Len(lines) = 1 THEN lines[1]
    ELSE lines[1] \o <<LF>> \o JoinLines(Tail(lines))

MEMO_JSON_PREFIX == "MEMO_JSON:"

linesep == <<LF>>

\* text-mode write: "\n" becomes os.linesep
RECURSIVE FileWrite(_)
FileWrite(t) ==
    IF t = <<>> THEN <<>>
    ELSE (IF Head(t) = LF THEN linesep ELSE <<Head(t)>>) \o FileWrite(Tail(t))

\* text-mode read with universal newlines: CR LF and CR become "\n"
RECURSIVE FileRead(_)
FileRead(b) ==
    IF b = <<>> THEN <<>>
    ELSE IF Head(b) = CR /\ Len(b) > 1 /\ b[2] = LF THEN <<LF>> \o FileRead(Tail(Tail(b)))
    ELSE IF Head(b) = CR THEN <<LF>> \o FileRead(Tail(b))
    ELSE <<Head(b)>> \o FileRead(Tail(b))

base_workdir_abs == <<"/", "r", "/", "w">>
run_workdir_abs == PathJoin(base_workdir_abs, <<"run-1">>)
ReviewerSlug == <<"Codex_m_high_">>

\* the Auditor of a reviewer, pipeline.py 507-548 (no git: the workdir is
\* the slug directory), and of an arbiter, 467-477: no memo_root
Reviewer ==
    [name |-> <<"Codex", "[", "m", "|", "high", "]">>,
     workdir |-> PathJoin(run_workdir_abs, ReviewerSlug),
     memo_root |-> PathJoin(PathJoin(base_workdir_abs, <<"memos">>), ReviewerSlug)]


\* memo_path: `auditor.memo_root or auditor.workdir`, joined with memo.txt
memo_path(auditor) ==
    PathJoin(IF auditor.memo_root # <<>> THEN auditor.memo_root ELSE auditor.workdir,
             <<"memo.txt">>)

\* load_memo: "" when the file is absent
load_memo(files, auditor) ==
    IF memo_path(auditor) \notin DOMAIN files THEN <<>>
    ELSE FileRead(files[memo_path(auditor)])

\* save_memo of a str: makedirs, then the file is rewritten whole
save_memo(files, auditor, text) == MapSet(files, memo_path(auditor), FileWrite(text))

\* save_memo of a value that is not a str: open(path, "w") has emptied the
\* file when f.write raises TypeError
save_memo_fails(files, auditor) == MapSet(files, memo_path(auditor), <<>>)

MemoStep(memo, warned) == [memo |-> memo, warned |-> warned]

EndsWithLF(t) == t # <<>> /\ t[Len(t)] = LF

ApplyDirectiveMutAlwaysSeparate(memo, json_part) ==
    LET v == json_loads(json_part)
    IN  IF v.kind # "dict" THEN MemoStep(memo, TRUE)
        ELSE LET append_text == Get(v.d, "append", Str(<<>>))
                 overwrite == Truthy(Get(v.d, "overwrite", PyFalse))
             IN  IF ~Truthy(append_text) THEN MemoStep(memo, FALSE)
                 ELSE IF overwrite \/ ~Truthy(memo) THEN MemoStep(append_text, FALSE)
                 ELSE IF memo.ty # "str" THEN MemoStep(memo, TRUE)
                 ELSE IF append_text.ty # "str"
                      THEN MemoStep(Str(memo.s \o <<LF>>), TRUE)
                      ELSE MemoStep(Str(memo.s \o <<LF>> \o append_text.s), FALSE)

\* the body of the try block, 74-86, on the text after the prefix: the memo
\* after it, and whether the except branch wrote its warning
ApplyDirective(memo, json_part) ==
    LET v == json_loads(json_part)
    IN  IF v.kind # "dict" THEN MemoStep(memo, TRUE)
        ELSE LET append_text == Get(v.d, "append", Str(<<>>))
                 overwrite == Truthy(Get(v.d, "overwrite", PyFalse))
             IN  IF ~Truthy(append_text) THEN MemoStep(memo, FALSE)
                 ELSE IF overwrite \/ ~Truthy(memo) THEN MemoStep(append_text, FALSE)
                 ELSE IF memo.ty # "str" THEN MemoStep(memo, TRUE)
                 ELSE IF append_text.ty # "str"
                      THEN MemoStep(Str(IF EndsWithLF(memo.s) THEN memo.s
                                        ELSE memo.s \o <<LF>>), TRUE)
                      ELSE MemoStep(Str((IF EndsWithLF(memo.s) THEN memo.s
                                         ELSE memo.s \o <<LF>>) \o append_text.s), FALSE)

IsDirectiveLine(line) == Strip(line) # <<>> /\ Head(Strip(line)) = MEMO_JSON_PREFIX

\* the for loop, 70-88
RECURSIVE ProcessLines(_, _, _, _)
ProcessLines(lines, memo, cleaned, warned) ==
    IF lines = <<>> THEN [memo |-> memo, cleaned |-> cleaned, warned |-> warned]
    ELSE IF IsDirectiveLine(Head(lines))
         THEN ProcessLines(Tail(lines),
                           ApplyDirective(memo, Strip(Tail(Strip(Head(lines))))).memo,
                           cleaned,
                           warned \/ ApplyDirective(memo, Strip(Tail(Strip(Head(lines))))).warned)
         ELSE ProcessLines(Tail(lines), memo, Append(cleaned, Head(lines)), warned)

\* extract_and_update_memo up to line 90
Extracted(rawOut, memo) == ProcessLines(SplitLines(rawOut, <<>>, <<>>), Str(memo), <<>>, FALSE)

\* the directive lines an agent may write after the prefix
AppendMembers == {"A:t", "A:tLF", "A:uCRv", "A:", "A:null", "A:7"}
OverwriteMembers == {"O:true", "O:false"}
Directives ==
    {Obj(<<a>>) : a \in AppendMembers}
        \cup {Obj(<<a, ",", o>>) : a \in AppendMembers, o \in OverwriteMembers}
        \cup {Obj(<<o>>) : o \in OverwriteMembers}
        \cup {Obj(<<>>), <<"{", "x">>, <<"x">>, <<"7">>, <<"[", "7", "]">>, <<>>}

\* the answers of a reviewer: no directive, or one directive line, bare or
\* indented, alone or between other lines
Responses ==
    {<<>>, <<"x", LF, " ", "y">>}
        \cup {pre \o <<MEMO_JSON_PREFIX, " ">> \o d \o post :
                pre \in {<<>>, <<"x", LF>>, <<"x", CR, LF, " ">>},
                d \in Directives,
                post \in {<<>>, <<LF, " ", "y", LF>>}}

StoredMemos == {<<>>, <<"m">>, <<"m", LF>>}

MemoInit ==
    /\ pc = "memo_load"
    /\ raw = <<>>
    /\ control = <<>>
    /\ Idle
    /\ script = <<>>
    /\ shell = ShellIdle
    /\ fs = NoDir
    /\ registry = <<>>
    /\ hook = FALSE
    /\ cleanups = <<>>
    /\ base_workdir = <<>>
    /\ codex_configs = <<>>
    /\ arbiter_family = ""
    /\ has_git = FALSE
    /\ slug_map = <<>>
    /\ workdirs = <<>>
    /\ memo_files \in {EmptyMap} \cup {save_memo(EmptyMap, Reviewer, m) : m \in StoredMemos}
    /\ raw_output \in Responses
    /\ current_memo = <<>>
    /\ cleaned_output = <<>>
    /\ new_memo = Str(<<>>)
    /\ qa_snippet = <<>>
    /\ run_id = 0
    /\ ExtIdle

MemoFrame ==
    /\ UNCHANGED <<script, shell, fs, registry, hook, cleanups>>
    /\ UNCHANGED reviewVars
    /\ UNCHANGED <<base_workdir, codex_configs, arbiter_family, has_git, slug_map,
                   workdirs, raw_output, qa_snippet, run_id>>
    /\ UNCHANGED extVars

\* `memo_before = load_memo(auditor)` of this call and of the next one
LoadMemo ==
    /\ pc \in {"memo_load", "memo_reload"}
    /\ current_memo' = load_memo(memo_files, Reviewer)
    /\ pc' = IF pc = "memo_load" THEN "memo_extract" ELSE "memo_done"
    /\ UNCHANGED <<memo_files, cleaned_output, new_memo, error>>
    /\ MemoFrame

\* extract_and_update_memo(auditor, raw, memo_before), 55-93
ExtractAndUpdateMemo ==
    /\ pc = "memo_extract"
    /\ \E r \in {Extracted(raw_output, current_memo)} :
        /\ new_memo' = r.memo
        /\ IF r.memo = Str(current_memo)
           THEN /\ cleaned_output' = StripWs(JoinLines(r.cleaned))
                /\ pc' = "memo_reload"
                /\ UNCHANGED <<memo_files, error>>
           ELSE IF r.memo.ty = "str"
           THEN /\ cleaned_output' = StripWs(JoinLines(r.cleaned))
                /\ memo_files' = save_memo(memo_files, Reviewer, r.memo.s)
                /\ pc' = "memo_reload"
                /\ UNCHANGED error
           ELSE /\ memo_files' = save_memo_fails(memo_files, Reviewer)
                /\ pc' = "memo_raised"
                /\ error' = "TypeError"
                /\ UNCHANGED cleaned_output
    /\ UNCHANGED current_memo
    /\ MemoFrame

MemoNext ==
    \/ LoadMemo
    \/ ExtractAndUpdateMemo

MemoSpec == MemoInit /\ [][MemoNext]_vars

-----------------------------------------------------------------------------
(* PersistSpec: successive runs over one workdir root.  memo_files is the
   whole tree under the root, path -> content: the run directories with
   their marker and workspaces, and the memo directories. *)

WORKDIR_MARKER == ".agent_multi_cr_workspace"

\* run-<time>-<pid>: one name per run
RunIdTokens == <<"run-1", "run-2", "run-3", "run-4">>
RunWorkdir(k) == PathJoin(base_workdir_abs, <<RunIdTokens[k]>>)
MarkerPath(k) == PathJoin(RunWorkdir(k), <<WORKDIR_MARKER>>)
MarkerText == <<"agent-multi-cr auditors workspace", LF>>

\* 505-548: the Auditor of the Codex reviewer in run k; with git its
\* workdir is the worktree <slug>/repo, without it the copy <slug>
ReviewerIn(k, git) ==
    [name |-> Reviewer.name,
     workdir |-> IF git
                 THEN PathJoin(PathJoin(RunWorkdir(k), ReviewerSlug), <<"repo">>)
                 ELSE PathJoin(RunWorkdir(k), ReviewerSlug),
     memo_root |-> PathJoin(PathJoin(base_workdir_abs, <<"memos">>), ReviewerSlug)]

\* a file of the repository as it appears in the workspace
WorkspaceFile(k, git) == PathJoin(ReviewerIn(k, git).workdir, <<"f">>)

Under(p, d) == StartsWith(p, d \o <<"/">>)
FilesUnder(files, d) == {p \in DOMAIN files : Under(p, d)}
IsDir(files, d) == FilesUnder(files, d) # {}
Restrict(files, keep) == [p \in keep |-> files[p]]

\* shutil.rmtree(d): everything under d goes, or, when it fails on the
\* way, only a part of it
RmTreeFiles(files, d) ==
    {Restrict(files, (DOMAIN files) \ gone) : gone \in SUBSET FilesUnder(files, d)}

\* what an earlier, interrupted run may have left under the root
Leftovers ==
    {EmptyMap,
     MapSet(MapSet(EmptyMap, MarkerPath(1), MarkerText), WorkspaceFile(1, FALSE), <<"old">>),
     MapSet(EmptyMap, WorkspaceFile(1, FALSE), <<"old">>)}

PersistResponses ==
    {<<"x">>}
        \cup {<<"x", LF, MEMO_JSON_PREFIX, " ">> \o Obj(<<a>>) : a \in {"A:t", "A:uCRv", "A:7"}}

PersistInit ==
    /\ pc = "persist_start"
    /\ raw = <<>>
    /\ control = <<>>
    /\ Idle
    /\ script = <<>>
    /\ shell = ShellIdle
    /\ fs = NoDir
    /\ registry = <<>>
    /\ hook = FALSE
    /\ cleanups = <<>>
    /\ base_workdir = <<"w">>
    /\ codex_configs = <<>>
    /\ arbiter_family = ""
    /\ has_git \in BOOLEAN
    /\ slug_map = <<>>
    /\ workdirs = <<>>
    /\ memo_files \in {l : l \in Leftovers}
                        \cup {save_memo(l, Reviewer, <<"m">>) : l \in Leftovers}
    /\ raw_output = <<>>
    /\ current_memo = <<>>
    /\ cleaned_output = <<>>
    /\ new_memo = Str(<<>>)
    /\ qa_snippet = <<>>
    /\ run_id = 1
    /\ ExtIdle

PersistFrame ==
    /\ UNCHANGED <<script, shell, fs, cleanups>>
    /\ UNCHANGED reviewVars
    /\ UNCHANGED <<base_workdir, codex_configs, arbiter_family, has_git, slug_map,
                   workdirs, qa_snippet>>
    /\ UNCHANGED extVars

\* 362-381: the root is made, the run directory registered, and a run
\* directory already there is removed if it bears the marker
PersistStartup ==
    /\ pc = "persist_start"
    /\ registry' = Append(registry, RunWorkdir(run_id))
    /\ hook' = TRUE
    /\ IF ~IsDir(memo_files, RunWorkdir(run_id))
       THEN /\ pc' = "persist_provision"
            /\ UNCHANGED <<memo_files, error>>
       ELSE IF MarkerPath(run_id) \notin DOMAIN memo_files
       THEN /\ pc' = "persist_aborted"
            /\ error' = "SystemExit"
            /\ UNCHANGED memo_files
       ELSE /\ memo_files' \in RmTreeFiles(memo_files, RunWorkdir(run_id))
            /\ pc' = "persist_provision"
            /\ UNCHANGED error
    /\ UNCHANGED <<raw_output, current_memo, cleaned_output, new_memo, run_id>>
    /\ PersistFrame

\* 391-395, 505-548: the marker is written and the reviewer's workspace
\* filled; git refuses to add a worktree where files are
PersistProvision ==
    /\ pc = "persist_provision"
    /\ IF has_git /\ IsDir(memo_files, ReviewerIn(run_id, has_git).workdir)
       THEN /\ memo_files' = MapSet(memo_files, MarkerPath(run_id), MarkerText)
            /\ pc' = "persist_aborted"
            /\ error' = "SystemExit"
       ELSE /\ memo_files' = MapSet(MapSet(memo_files, MarkerPath(run_id), MarkerText),
                                    WorkspaceFile(run_id, has_git), <<"code">>)
            /\ pc' = "persist_load"
            /\ UNCHANGED error
    /\ UNCHANGED <<registry, hook, raw_output, current_memo, cleaned_output, new_memo, run_id>>
    /\ PersistFrame

\* llm_runners.py 77-107: the memo is loaded, the agent answers
PersistLoad ==
    /\ pc = "persist_load"
    /\ current_memo' = load_memo(memo_files, ReviewerIn(run_id, has_git))
    /\ raw_output' \in PersistResponses
    /\ pc' = "persist_extract"
    /\ UNCHANGED <<registry, hook, memo_files, cleaned_output, new_memo, error, run_id>>
    /\ PersistFrame

\* extract_and_update_memo; an exception of the call ends the run (638-642)
PersistExtract ==
    /\ pc = "persist_extract"
    /\ \E r \in {Extracted(raw_output, current_memo)} :
        /\ new_memo' = r.memo
        /\ IF r.memo = Str(current_memo)
           THEN /\ cleaned_output' = StripWs(JoinLines(r.cleaned))
                /\ pc' = "persist_teardown"
                /\ UNCHANGED <<memo_files, error>>
           ELSE IF r.memo.ty = "str"
           THEN /\ cleaned_output' = StripWs(JoinLines(r.cleaned))
                /\ memo_files' = save_memo(memo_files, ReviewerIn(run_id, has_git), r.memo.s)
                /\ pc' = "persist_teardown"
                /\ UNCHANGED error
           ELSE /\ memo_files' = save_memo_fails(memo_files, ReviewerIn(run_id, has_git))
                /\ pc' = "persist_aborted"
                /\ error' = "TypeError"
                /\ UNCHANGED cleaned_output
    /\ UNCHANGED <<registry, hook, raw_output, current_memo, run_id>>
    /\ PersistFrame

\* a later stage of the run raises: the teardown is not reached
PersistAbort ==
    /\ pc = "persist_teardown"
    /\ pc' = "persist_aborted"
    /\ error' = "SystemExit"
    /\ UNCHANGED <<registry, hook, memo_files, raw_output, current_memo, cleaned_output,
                   new_memo, run_id>>
    /\ PersistFrame

\* 844-861: the run directory is removed if it bears the marker, and
\* taken off the registry
PersistTeardown ==
    /\ pc = "persist_teardown"
    /\ IF IsDir(memo_files, RunWorkdir(run_id)) /\ MarkerPath(run_id) \in DOMAIN memo_files
       THEN memo_files' \in RmTreeFiles(memo_files, RunWorkdir(run_id))
       ELSE UNCHANGED memo_files
    /\ registry' = SelectSeq(registry, LAMBDA d : d # RunWorkdir(run_id))
    /\ pc' = "persist_returned"
    /\ UNCHANGED <<hook, raw_output, current_memo, cleaned_output, new_memo, error, run_id>>
    /\ PersistFrame

\* 224-234: the exit hook cleans what is still registered
PersistAtexit ==
    /\ pc \in {"persist_returned", "persist_aborted"}
    /\ hook
    /\ IF registry # <<>> /\ IsDir(memo_files, registry[1])
                          /\ PathJoin(registry[1], <<WORKDIR_MARKER>>) \in DOMAIN memo_files
       THEN memo_files' \in RmTreeFiles(memo_files, registry[1])
       ELSE UNCHANGED memo_files
    /\ registry' = <<>>
    /\ pc' = "persist_exited"
    /\ UNCHANGED <<hook, raw_output, current_memo, cleaned_output, new_memo, error, run_id>>
    /\ PersistFrame

\* the next run is a new process over the same root; the memo loaded and
\* the memo returned by the last call of the run before stay on record
PersistNextRun ==
    /\ pc = "persist_exited"
    /\ run_id < MaxRuns
    /\ run_id' = run_id + 1
    /\ pc' = "persist_start"
    /\ hook' = FALSE
    /\ error' = ""
    /\ UNCHANGED <<registry, memo_files, raw_output, current_memo, cleaned_output, new_memo>>
    /\ PersistFrame

PersistNext ==
    \/ PersistStartup
    \/ PersistProvision
    \/ PersistLoad
    \/ PersistExtract
    \/ PersistAbort
    \/ PersistTeardown
    \/ PersistAtexit
    \/ PersistNextRun

PersistSpec == PersistInit /\ [][PersistNext]_vars

-----------------------------------------------------------------------------
(* SnippetSpec: the follow-up branch of the arbiter loop, 764-799, with
   the arbiter asking a reviewer of the roster each time *)

\* f"Question:\n{item['question']}\n\nAnswer:\n{item['answer']}\n"
FormatQa(item) ==
    <<"Question:", LF>> \o item.question \o <<LF, LF, "Answer:", LF>> \o item.answer \o <<LF>>

NoPreviousQa == <<"(no previous Q&A with you)">>

\* sep.join(parts)
RECURSIVE JoinWith(_, _)
JoinWith(parts, sep) ==
    IF parts = <<>> THEN <<>>
    ELSE IF Len(parts) = 1 THEN parts[1]
    ELSE parts[1] \o sep \o JoinWith(Tail(parts), sep)

PartsOf(items) == [i \in 1..Len(items) |-> FormatQa(items[i])]

build_qa_snippet_for_reviewerMutNoFilter(history, reviewer_name) ==
    IF PartsOf(history) # <<>>
    THEN JoinWith(PartsOf(history), <<LF, "---", LF>>)
    ELSE NoPreviousQa

build_qa_snippet_for_reviewer(history, reviewer_name) ==
    IF PartsOf(SelectSeq(history, LAMBDA item : item.reviewer = reviewer_name)) # <<>>
    THEN JoinWith(PartsOf(SelectSeq(history, LAMBDA item : item.reviewer = reviewer_name)),
                  <<LF, "---", LF>>)
    ELSE NoPreviousQa

SnippetRoster == <<<<"A">>, GeminiName>>
Questions == {<<"q1">>, <<"q2">>}
FollowupAnswers == {<<"a1">>, <<"a2", LF, "b">>}

SnippetInit ==
    /\ pc = "snippet_query"
    /\ raw = <<>>
    /\ control = <<>>
    /\ auditors = SnippetRoster
    /\ mode = "multi"
    /\ max_queries = MaxFollowups
    /\ initial_reviews = [n \in NamesOf(SnippetRoster) |-> <<"review">>]
    /\ latest_reviews = [n \in NamesOf(SnippetRoster) |-> <<"updated review">>]
    /\ qa_history = <<>>
    /\ query_count = 0
    /\ final_markdown = None
    /\ call = NoCall
    /\ calls = <<>>
    /\ report = None
    /\ error = ""
    /\ round = "none"
    /\ task = <<>>
    /\ outcome = NoOutcome
    /\ completed = 0
    /\ SysIdle

SnippetFrame ==
    /\ UNCHANGED <<raw, control, auditors, mode, max_queries, initial_reviews,
                   latest_reviews, final_markdown, calls, report, error, round,
                   task, outcome, completed>>
    /\ UNCHANGED <<script, shell, fs, registry, hook, cleanups>>
    /\ UNCHANGED <<base_workdir, codex_configs, arbiter_family, has_git, slug_map,
                   workdirs, memo_files, raw_output, current_memo, cleaned_output,
                   new_memo, run_id>>
    /\ UNCHANGED extVars

\* 764-789: the arbiter's query names a reviewer of the roster; the
\* snippet is built from the history and handed to run_auditor_followup
AskFollowup ==
    /\ pc = "snippet_query"
    /\ query_count < max_queries
    /\ \E target \in 1..Len(auditors), question \in Questions :
        /\ qa_snippet' = build_qa_snippet_for_reviewer(qa_history, auditors[target])
        /\ call' = [kind |-> "followup", allow |-> FALSE,
                    target |-> target, question |-> question]
    /\ pc' = "snippet_followup"
    /\ UNCHANGED <<qa_history, query_count>>
    /\ SnippetFrame

\* 791-798: the answer is appended to the history
FollowupAnswered ==
    /\ pc = "snippet_followup"
    /\ \E answer \in FollowupAnswers :
        qa_history' = Append(qa_history, [reviewer |-> auditors[call.target],
                                          question |-> call.question,
                                          answer |-> answer])
    /\ query_count' = query_count + 1
    /\ call' = NoCall
    /\ pc' = "snippet_query"
    /\ UNCHANGED qa_snippet
    /\ SnippetFrame

SnippetNext ==
    \/ AskFollowup
    \/ FollowupAnswered

SnippetSpec == SnippetInit /\ [][SnippetNext]_vars

-----------------------------------------------------------------------------
(* HandoffSpec: the reviews are handed to the arbiter, pipeline.py 694-753
   against llm_runners.py 245-270.  Entered with both mappings complete,
   as the cross-check round would leave them; the call is bound as the
   source binds it. *)

LatestTexts == {<<"updated review">>, <<"review">>}

HandoffInit ==
    /\ pc = "arbiter"
    /\ raw = <<>>
    /\ control = <<>>
    /\ auditors \in Rosters
    /\ mode \in Modes
    /\ max_queries \in 0..MaxQueries
    /\ initial_reviews = [n \in NamesOf(auditors) |-> <<"review">>]
    /\ latest_reviews \in [NamesOf(auditors) -> LatestTexts]
    /\ qa_history = <<>>
    /\ query_count = 0
    /\ final_markdown = None
    /\ call = NoCall
    /\ calls = <<>>
    /\ report = None
    /\ error = ""
    /\ round = "arbiter"
    /\ task = <<>>
    /\ outcome = NoOutcome
    /\ completed = 0
    /\ SysIdle

\* the keyword arguments of _call_arbiter_step that run_arbiter_step has a
\* parameter for, with the values passed (702-715)
ArbiterStepArguments ==
    [kind |-> "arbiter", target |-> 0,
     allow |-> (mode # "single" /\ LoopGuard),
     initial_reviews |-> initial_reviews,
     qa_history |-> qa_history]

\* _call_arbiter_step(...): Python binds the keywords to the signature of
\* run_arbiter_step before its body runs
CallRunArbiterStep ==
    /\ pc = "arbiter"
    /\ IF ArbiterStepBinds
       THEN /\ calls' = Append(calls, ArbiterStepArguments)
            /\ pc' = "await_arbiter"
            /\ UNCHANGED error
       ELSE /\ pc' = "raised"
            /\ error' = "TypeError"
            /\ UNCHANGED calls
    /\ UNCHANGED <<raw, control, auditors, mode, max_queries, initial_reviews,
                   latest_reviews, qa_history, query_count, final_markdown, call,
                   report, round, task, outcome, completed>>
    /\ UNCHANGED sysVars

HandoffNext == CallRunArbiterStep

HandoffSpec == HandoffInit /\ [][HandoffNext]_vars

-----------------------------------------------------------------------------
(* SandboxSpec: the reviewers' workspaces in a git repository,
   pipeline.py 505-588 with _create_worktree, _apply_patch_to_worktree
   and _run_git.  script holds what the git commands will do, in the
   order they are run. *)

\* subprocess.run returns 0, returns another code, or raises
GitOutcomes == {"ok", "nonzero", "cannot_run"}

\* one Codex reviewer, then the Gemini reviewer
SandboxAgents == <<"codex", "gemini">>

\* at most a `worktree add` and an `apply` for each
GitCommands == 2 * Len(SandboxAgents)

PatchTexts == {<<>>, <<" ", LF>>, <<"diff">>}

PatchWarning == "Warning: failed to apply git diff patch in auditor worktree."

SandboxInit ==
    /\ pc = "sandbox_worktree"
    /\ raw = <<>>
    /\ control = <<>>
    /\ Idle
    /\ script \in [1..GitCommands -> GitOutcomes]
    /\ shell = ShellIdle
    /\ fs = NoDir
    /\ registry = <<>>
    /\ hook = FALSE
    /\ cleanups = <<>>
    /\ base_workdir = <<>>
    /\ codex_configs = <<>>
    /\ arbiter_family = ""
    /\ has_git = TRUE
    /\ slug_map = <<>>
    /\ workdirs = <<>>
    /\ memo_files = <<>>
    /\ raw_output = <<>>
    /\ current_memo = <<>>
    /\ cleaned_output = <<>>
    /\ new_memo = <<>>
    /\ qa_snippet = <<>>
    /\ run_id = 0
    /\ stderr = <<>>
    /\ patch_text \in PatchTexts
    /\ ProgressIdle
    /\ MoreIdle

SandboxFrame ==
    /\ UNCHANGED <<shell, fs, registry, hook, cleanups>>
    /\ UNCHANGED reviewVars
    /\ UNCHANGED <<base_workdir, codex_configs, arbiter_family, has_git, slug_map,
                   memo_files, raw_output, current_memo, cleaned_output, new_memo,
                   qa_snippet, run_id, patch_text>>
    /\ UNCHANGED <<progress, progress_lock, stop_progress, reporter, moreVars>>

\* _run_git with check=True: SystemExit when git cannot be run or exits
\* non-zero
CheckedGitRaises(o) == o # "ok"

\* _run_git with check=False: SystemExit only when git cannot be run
UncheckedGitRaises(o) == o = "cannot_run"

\* _create_worktree (109-122) for the next reviewer
CreateWorktree ==
    /\ pc = "sandbox_worktree"
    /\ script' = Tail(script)
    /\ IF CheckedGitRaises(Head(script))
       THEN /\ pc' = "sandbox_aborted"
            /\ error' = "SystemExit: git worktree add"
            /\ UNCHANGED workdirs
       ELSE /\ workdirs' = Append(workdirs, [role |-> SandboxAgents[Len(workdirs) + 1],
                                             view |-> "worktree", patched |-> FALSE])
            /\ pc' = "sandbox_patch"
            /\ UNCHANGED error
    /\ UNCHANGED stderr
    /\ SandboxFrame

AfterPatch == IF Len(workdirs) = Len(SandboxAgents) THEN "sandbox_rounds" ELSE "sandbox_worktree"

\* _apply_patch_to_worktree (125-158) in the worktree just made
ApplyPatchToWorktree ==
    /\ pc = "sandbox_patch"
    /\ IF StripWs(patch_text) = <<>>
       THEN /\ pc' = AfterPatch
            /\ UNCHANGED <<script, workdirs, stderr, error>>
       ELSE /\ script' = Tail(script)
            /\ IF UncheckedGitRaises(Head(script))
               THEN /\ pc' = "sandbox_aborted"
                    /\ error' = "SystemExit: git apply"
                    /\ UNCHANGED <<workdirs, stderr>>
               ELSE IF Head(script) = "nonzero"
               THEN /\ stderr' = Append(stderr, PatchWarning)
                    /\ pc' = AfterPatch
                    /\ UNCHANGED <<workdirs, error>>
               ELSE /\ workdirs' = [workdirs EXCEPT ![Len(workdirs)].patched = TRUE]
                    /\ pc' = AfterPatch
                    /\ UNCHANGED <<stderr, error>>
    /\ SandboxFrame

\* 614: round 1 begins
BeginRounds ==
    /\ pc = "sandbox_rounds"
    /\ pc' = "sandbox_round1"
    /\ UNCHANGED <<script, workdirs, stderr, error>>
    /\ SandboxFrame

SandboxNext ==
    \/ CreateWorktree
    \/ ApplyPatchToWorktree
    \/ BeginRounds

SandboxSpec == SandboxInit /\ [][SandboxNext]_vars

-----------------------------------------------------------------------------
(* ProgressSpec: the main thread of run_pipeline updating the progress
   dict (pipeline.py 481-864) beside the reporter thread reading it
   (410-433).  pc is the `with progress_lock` block the main thread is at;
   it is followed through the arbiter phase as the code is written. *)

ProgressKeys == <<"phase", "auditors_total", "auditors_done", "arbiter_step", "arbiter_max">>

\* 400-407
InitialProgress ==
    [phase |-> "setup", auditors_total |-> 0, auditors_done |-> 0,
     arbiter_step |-> 0, arbiter_max |-> max_queries]

ReporterAt(p, snap) == [pc |-> p, snap |-> snap]

ProgressInit ==
    /\ pc = "p_total"
    /\ raw = <<>>
    /\ control = <<>>
    /\ auditors \in {r \in Rosters : Len(r) >= 2}
    /\ mode = "multi"
    /\ max_queries \in 1..MaxQueries
    /\ initial_reviews = EmptyMap
    /\ latest_reviews = EmptyMap
    /\ qa_history = <<>>
    /\ query_count = 0
    /\ final_markdown = None
    /\ call = NoCall
    /\ calls = <<>>
    /\ report = None
    /\ error = ""
    /\ round = "none"
    /\ task = <<>>
    /\ outcome = NoOutcome
    /\ completed = 0
    /\ script = <<>>
    /\ shell = ShellIdle
    /\ fs = NoDir
    /\ registry = <<>>
    /\ hook = FALSE
    /\ cleanups = <<>>
    /\ base_workdir = <<>>
    /\ codex_configs = <<>>
    /\ arbiter_family = ""
    /\ has_git = FALSE
    /\ slug_map = <<>>
    /\ workdirs = <<>>
    /\ memo_files = <<>>
    /\ raw_output = <<>>
    /\ current_memo = <<>>
    /\ cleaned_output = <<>>
    /\ new_memo = <<>>
    /\ qa_snippet = <<>>
    /\ run_id = 0
    /\ stderr = <<>>
    /\ patch_text = <<>>
    /\ progress = InitialProgress
    /\ progress_lock = "none"
    /\ stop_progress = FALSE
    /\ reporter = ReporterAt("wait", <<>>)
    /\ MoreIdle

ProgressFrame ==
    /\ UNCHANGED <<raw, control, auditors, mode, max_queries, initial_reviews,
                   latest_reviews, qa_history, final_markdown, call, calls, report,
                   round, task, outcome>>
    /\ UNCHANGED <<script, shell, fs, registry, hook, cleanups>>
    /\ UNCHANGED <<base_workdir, codex_configs, arbiter_family, has_git, slug_map,
                   workdirs, memo_files, raw_output, current_memo, cleaned_output,
                   new_memo, qa_snippet, run_id, patch_text, moreVars>>

\* the locked blocks of the main thread, in program order
LockedBlocks == {"p_total", "p_initial", "p_done", "p_peer", "p_arbiter", "p_step", "p_assemble"}

\* the assignment made inside the block at pc
ProgressUpdate ==
    CASE pc = "p_total" -> [progress EXCEPT !.auditors_total = Len(auditors)]
      [] pc = "p_initial" -> [progress EXCEPT !.phase = "initial_reviews"]
      [] pc = "p_done" -> [progress EXCEPT !.auditors_done = completed + 1]
      [] pc = "p_peer" -> [progress EXCEPT !.phase = "peer_round"]
      [] pc = "p_arbiter" -> [progress EXCEPT !.phase = "arbiter"]
      [] pc = "p_step" -> [progress EXCEPT !.arbiter_step = query_count]
      [] OTHER -> [progress EXCEPT !.phase = "assembling"]

\* the block the main thread comes to next
NextBlock ==
    CASE pc = "p_total" -> "p_initial"
      [] pc = "p_initial" -> "p_done"
      [] pc = "p_done" -> IF completed + 1 < Len(auditors) THEN "p_done" ELSE "p_peer"
      [] pc = "p_peer" -> "p_arbiter"
      [] pc = "p_arbiter" -> "p_step"
      [] pc = "p_step" -> IF query_count < max_queries THEN "p_step" ELSE "p_assemble"
      [] OTHER -> "p_stop"

\* `with progress_lock:` is entered
MainAcquire ==
    /\ pc \in LockedBlocks
    /\ progress_lock = "none"
    /\ progress_lock' = "main"
    /\ UNCHANGED <<pc, progress, stop_progress, reporter, stderr, completed,
                   query_count, error>>
    /\ ProgressFrame

\* the assignment inside the block, and the block is left
MainUpdate ==
    /\ pc \in LockedBlocks
    /\ progress_lock = "main"
    /\ progress' = ProgressUpdate
    /\ progress_lock' = "none"
    /\ pc' = NextBlock
    /\ completed' = IF pc = "p_done" THEN completed + 1 ELSE completed
    /\ query_count' = IF pc = "p_step" /\ query_count < max_queries
                      THEN query_count + 1 ELSE query_count
    /\ UNCHANGED <<stop_progress, reporter, stderr, error>>
    /\ ProgressFrame

\* an exception leaves run_pipeline between two blocks: the cross-check
\* round re-raises (688-690), the arbiter call fails (749)
MainRaises ==
    /\ pc \in {"p_arbiter", "p_step"}
    /\ progress_lock = "none"
    /\ pc' = "p_raised"
    /\ error' = "raised"
    /\ UNCHANGED <<progress, progress_lock, stop_progress, reporter, stderr, completed,
                   query_count>>
    /\ ProgressFrame

\* 864: stop_progress.set()
MainStops ==
    /\ pc = "p_stop"
    /\ stop_progress' = TRUE
    /\ pc' = "p_end"
    /\ UNCHANGED <<progress, progress_lock, reporter, stderr, completed, query_count, error>>
    /\ ProgressFrame

ReporterFrame ==
    /\ UNCHANGED <<pc, progress, stop_progress, completed, query_count, error>>
    /\ ProgressFrame

\* 413, 432: stop_progress.wait(5.0) returns, set or timed out
ReporterWaits ==
    /\ reporter.pc = "wait"
    /\ reporter' = ReporterAt(IF stop_progress THEN "done" ELSE "test", <<>>)
    /\ UNCHANGED <<progress_lock, stderr>>
    /\ ReporterFrame

\* 415: `while not stop_progress.is_set()`
ReporterTests ==
    /\ reporter.pc = "test"
    /\ reporter' = ReporterAt(IF stop_progress THEN "done" ELSE "lock", <<>>)
    /\ UNCHANGED <<progress_lock, stderr>>
    /\ ReporterFrame

ReporterAcquireMutNoLock ==
    /\ reporter.pc = "lock"
    /\ reporter' = ReporterAt("read", <<>>)
    /\ UNCHANGED <<progress_lock, stderr>>
    /\ ReporterFrame

\* 416: `with progress_lock:` is entered
ReporterAcquire ==
    /\ reporter.pc = "lock"
    /\ progress_lock = "none"
    /\ progress_lock' = "reporter"
    /\ reporter' = ReporterAt("read", <<>>)
    /\ UNCHANGED stderr
    /\ ReporterFrame

\* 417-421: one progress.get(...) after the other
ReporterReads ==
    /\ reporter.pc = "read"
    /\ Len(reporter.snap) < Len(ProgressKeys)
    /\ reporter' = ReporterAt("read", Append(reporter.snap,
                                             progress[ProgressKeys[Len(reporter.snap) + 1]]))
    /\ UNCHANGED <<progress_lock, stderr>>
    /\ ReporterFrame

\* the block is left with the five values read
ReporterRelease ==
    /\ reporter.pc = "read"
    /\ Len(reporter.snap) = Len(ProgressKeys)
    /\ progress_lock' = "none"
    /\ reporter' = ReporterAt("format", reporter.snap)
    /\ UNCHANGED stderr
    /\ ReporterFrame

\* 422-431: the status line replaces the one before it
ReporterWrites ==
    /\ reporter.pc = "format"
    /\ stderr' = <<reporter.snap>>
    /\ reporter' = ReporterAt("wait", <<>>)
    /\ UNCHANGED progress_lock
    /\ ReporterFrame

ProgressNext ==
    \/ MainAcquire
    \/ MainUpdate
    \/ MainRaises
    \/ MainStops
    \/ ReporterWaits
    \/ ReporterTests
    \/ ReporterAcquire
    \/ ReporterReads
    \/ ReporterRelease
    \/ ReporterWrites

ProgressSpec == ProgressInit /\ [][ProgressNext]_vars

-----------------------------------------------------------------------------
(* WorktreeSpec: _cleanup_run_workdir of the run directory of run 1 in a
   repository whose worktree list holds worktrees inside and outside that
   directory (pipeline.py 161-221). *)

MaxWorktrees == 3

\* the main worktree, which git lists first
MainWorktree == RepoRoot

\* the other worktrees git may have registered: in the run directory, the
\* run directory itself, reached through the link /r/i, of another run, of
\* a sibling whose name continues the run directory's, the workdir root,
\* and one outside the repository
OtherWorktrees ==
    { PathJoin(RunWorkdir(1), <<"a">>),
      RunWorkdir(1),
      <<"/", "r", "/", "i", "/">> \o <<RunIdTokens[1]>> \o <<"/", "b">>,
      PathJoin(RunWorkdir(2), <<"a">>),
      RunWorkdir(1) \o <<"0">>,
      PathJoin(RunWorkdir(1) \o <<"0">>, <<"a">>),
      base_workdir_abs,
      <<"/", "o", "/", "a">> }

Registered(path) == [path |-> path, present |-> TRUE]

\* lists of distinct worktrees after the main one
WorktreeLists ==
    UNION {{[i \in 1..(n + 1) |-> Registered(IF i = 1 THEN MainWorktree ELSE q[i - 1])] :
              q \in {f \in [1..n -> OtherWorktrees] :
                       \A i, j \in 1..n : i # j => f[i] # f[j]}} :
           n \in 0..MaxWorktrees}

WorktreeInit ==
    /\ pc = "wt_list"
    /\ raw = <<>>
    /\ control = <<>>
    /\ Idle
    /\ script = <<>>
    /\ shell = ShellIdle
    /\ fs = NoDir
    /\ registry = <<>>
    /\ hook = FALSE
    /\ cleanups = <<>>
    /\ base_workdir = <<>>
    /\ codex_configs = <<>>
    /\ arbiter_family = ""
    /\ has_git = TRUE
    /\ slug_map = <<>>
    /\ workdirs = <<>>
    /\ memo_files = <<>>
    /\ raw_output = <<>>
    /\ current_memo = <<>>
    /\ cleaned_output = <<>>
    /\ new_memo = <<>>
    /\ qa_snippet = <<>>
    /\ run_id = 1
    /\ stderr = <<>>
    /\ patch_text = <<>>
    /\ ProgressIdle
    /\ worktrees \in WorktreeLists
    /\ current_line = 0
    /\ execs = <<>>

WorktreeFrame ==
    /\ UNCHANGED <<runVars, script, shell, fs, registry, hook, cleanups>>
    /\ UNCHANGED <<base_workdir, codex_configs, arbiter_family, has_git, slug_map,
                   workdirs, memo_files, raw_output, current_memo, cleaned_output,
                   new_memo, qa_snippet, run_id>>
    /\ UNCHANGED <<stderr, patch_text, progress, progress_lock, stop_progress, reporter,
                   execs>>

WorktreeMatchesMutNoSeparator(wt, parent_path) ==
    StartsWith(realpath(wt), realpath(parent_path))

\* 183-184: wt_real == parent_real or wt_real.startswith(parent_real + os.sep)
WorktreeMatches(wt, parent_path) ==
    \/ realpath(wt) = realpath(parent_path)
    \/ StartsWith(realpath(wt), realpath(parent_path) \o <<"/">>)

\* `git worktree remove --force` takes the worktree away when it succeeds;
\* git does not remove the main worktree
GitRemoves(w, o) == o = "ok" /\ w.path # MainWorktree

\* 166-175: `git worktree list --porcelain`; when git cannot be run the
\* function returns, when it exits non-zero there are no lines to read
ListWorktrees ==
    /\ pc = "wt_list"
    /\ \E o \in GitOutcomes :
         /\ pc' = IF o = "ok" THEN "wt_loop" ELSE "wt_rmtree"
         /\ current_line' = IF o = "ok" THEN 1 ELSE 0
    /\ UNCHANGED worktrees
    /\ WorktreeFrame

\* 178-194: one `worktree ` line of the list
ExamineWorktree ==
    /\ pc = "wt_loop"
    /\ current_line <= Len(worktrees)
    /\ \E o \in GitOutcomes :
         worktrees' = IF /\ WorktreeMatches(worktrees[current_line].path, RunWorkdir(run_id))
                         /\ GitRemoves(worktrees[current_line], o)
                      THEN [worktrees EXCEPT ![current_line].present = FALSE]
                      ELSE worktrees
    /\ current_line' = current_line + 1
    /\ UNCHANGED pc
    /\ WorktreeFrame

\* the list is exhausted
WorktreesDone ==
    /\ pc = "wt_loop"
    /\ current_line > Len(worktrees)
    /\ pc' = "wt_rmtree"
    /\ UNCHANGED <<worktrees, current_line>>
    /\ WorktreeFrame

\* 213-221: shutil.rmtree(path) takes away what lies in the directory, or
\* fails and is logged
RemoveRunTree ==
    /\ pc = "wt_rmtree"
    /\ \/ worktrees' = [i \in 1..Len(worktrees) |->
                          IF \/ realpath(worktrees[i].path) = RunWorkdir(run_id)
                             \/ Under(realpath(worktrees[i].path), RunWorkdir(run_id))
                          THEN [worktrees[i] EXCEPT !.present = FALSE]
                          ELSE worktrees[i]]
       \/ UNCHANGED worktrees
    /\ pc' = "wt_cleaned"
    /\ UNCHANGED current_line
    /\ WorktreeFrame

WorktreeNext ==
    \/ ListWorktrees
    \/ ExamineWorktree
    \/ WorktreesDone
    \/ RemoveRunTree

WorktreeSpec == WorktreeInit /\ [][WorktreeNext]_vars

-----------------------------------------------------------------------------
(* ExecSpec: two executions of run_pipeline with one workdir root, each
   from the naming of its run directory (pipeline.py 356) to the exit hook
   of its process (224-234).  fs maps a run id to the state of the
   directory of that name under the root. *)

Executions == {1, 2}

\* the values of int(time.time()) and of os.getpid() an execution may see:
\* the clock does not go back; a process id is unique among the live
\* processes of one pid namespace only
Seconds == {0, 1}
Pids == {1, 2}

\* 356: f"run-{int(time.time())}-{os.getpid()}"
RunIdOf(x) == <<"run-", x.time, "-", x.pid>>

RunIds == {RunIdOf([time |-> t, pid |-> p]) : t \in Seconds, p \in Pids}

NotStarted == [pc |-> "idle", time |-> 0, pid |-> 0]
Absent == [exists |-> FALSE, marker |-> FALSE]

ExecInit ==
    /\ pc = "execs"
    /\ raw = <<>>
    /\ control = <<>>
    /\ Idle
    /\ script = <<>>
    /\ shell = ShellIdle
    /\ fs = [d \in RunIds |-> Absent]
    /\ registry = <<>>
    /\ hook = FALSE
    /\ cleanups = <<>>
    /\ base_workdir = <<>>
    /\ codex_configs = <<>>
    /\ arbiter_family = ""
    /\ has_git = FALSE
    /\ slug_map = <<>>
    /\ workdirs = <<>>
    /\ memo_files = <<>>
    /\ raw_output = <<>>
    /\ current_memo = <<>>
    /\ cleaned_output = <<>>
    /\ new_memo = <<>>
    /\ qa_snippet = <<>>
    /\ run_id = 0
    /\ stderr = <<>>
    /\ patch_text = <<>>
    /\ ProgressIdle
    /\ worktrees = <<>>
    /\ current_line = 0
    /\ execs = [e \in Executions |-> NotStarted]

ExecFrame ==
    /\ UNCHANGED <<pc, runVars, script, shell, registry, hook, cleanups>>
    /\ UNCHANGED <<base_workdir, codex_configs, arbiter_family, has_git, slug_map,
                   workdirs, memo_files, raw_output, current_memo, cleaned_output,
                   new_memo, qa_snippet, run_id>>
    /\ UNCHANGED <<stderr, patch_text, progress, progress_lock, stop_progress, reporter,
                   worktrees, current_line>>

ExecAt(e, p) == [execs EXCEPT ![e].pc = p]

\* the run directory of execution e
DirOf(e) == fs[RunIdOf(execs[e])]

\* _cleanup_run_workdir: the tree is removed, or rmtree fails and is logged
CleanedUp(e) == {[fs EXCEPT ![RunIdOf(execs[e])] = Absent], fs}

\* 355-357: the run directory is named
ExecStarts ==
    \E e \in Executions, t \in Seconds, p \in Pids :
        /\ execs[e].pc = "idle"
        /\ \A f \in Executions : execs[f].pc # "idle" => t >= execs[f].time
        /\ execs' = [execs EXCEPT ![e] = [pc |-> "check", time |-> t, pid |-> p]]
        /\ UNCHANGED fs
        /\ ExecFrame

\* 371-381: an existing directory of that name is refused without the
\* marker and cleaned with it
ExecStartupCheck ==
    \E e \in Executions :
        /\ execs[e].pc = "check"
        /\ IF ~DirOf(e).exists
           THEN /\ execs' = ExecAt(e, "context")
                /\ UNCHANGED fs
           ELSE IF ~DirOf(e).marker
           THEN /\ execs' = ExecAt(e, "refused")
                /\ UNCHANGED fs
           ELSE /\ execs' = ExecAt(e, "context")
                /\ fs' \in CleanedUp(e)
        /\ ExecFrame

\* 384-393: the context is prepared, then os.makedirs(exist_ok=True)
ExecMakedirs ==
    \E e \in Executions :
        /\ execs[e].pc = "context"
        /\ fs' = [fs EXCEPT ![RunIdOf(execs[e])].exists = TRUE]
        /\ execs' = ExecAt(e, "stamp")
        /\ ExecFrame

\* 394-396: the marker is written
ExecStampMarker ==
    \E e \in Executions :
        /\ execs[e].pc = "stamp"
        /\ fs' = [fs EXCEPT ![RunIdOf(execs[e])] = [exists |-> TRUE, marker |-> TRUE]]
        /\ execs' = ExecAt(e, "running")
        /\ ExecFrame

\* an exception leaves run_pipeline during set-up or a round
ExecRaises ==
    \E e \in Executions :
        /\ execs[e].pc = "running"
        /\ execs' = ExecAt(e, "raised")
        /\ UNCHANGED fs
        /\ ExecFrame

\* 843-861: the end-of-run cleanup
ExecTeardown ==
    \E e \in Executions :
        /\ execs[e].pc = "running"
        /\ IF DirOf(e).exists /\ DirOf(e).marker
           THEN fs' \in CleanedUp(e)
           ELSE UNCHANGED fs
        /\ execs' = ExecAt(e, "returned")
        /\ ExecFrame

\* 224-234: the exit hook of the process; after a return the path is no
\* longer in the list
ExecAtexit ==
    \E e \in Executions :
        /\ execs[e].pc \in {"refused", "raised", "returned"}
        /\ IF execs[e].pc # "returned" /\ DirOf(e).exists /\ DirOf(e).marker
           THEN fs' \in CleanedUp(e)
           ELSE UNCHANGED fs
        /\ execs' = ExecAt(e, "exited")
        /\ ExecFrame

ExecNext ==
    \/ ExecStarts
    \/ ExecStartupCheck
    \/ ExecMakedirs
    \/ ExecStampMarker
    \/ ExecRaises
    \/ ExecTeardown
    \/ ExecAtexit

ExecSpec == ExecInit /\ [][ExecNext]_vars

-----------------------------------------------------------------------------
(* Properties of the arbiter phase (ArbiterSpec) *)

IsArbiterCall(c) == c.kind = "arbiter"
IsFollowupCall(c) == c.kind = "followup"
AllowedCalls == {i \in 1..Len(calls) : IsArbiterCall(calls[i]) /\ calls[i].allow}
DisallowedCalls == {i \in 1..Len(calls) : IsArbiterCall(calls[i]) /\ ~calls[i].allow}
FollowupCalls == {i \in 1..Len(calls) : IsFollowupCall(calls[i])}
LastCallDisallowed == Len(calls) > 0 /\ Len(calls) \in DisallowedCalls
StateOf(c) == Get(c, "state", None)
IsFinal(c) == StateOf(c) = Str(<<"final">>)
IsQuery(c) == StateOf(c) = Str(<<"query">>)
TargetOf(c) == Get(c, "target_reviewer", None)
QuestionOf(c) == Get(c, "question", Str(<<>>))

\* the step in which run_arbiter_step hands a control object to run_pipeline
StepReturns == pc = "await_arbiter" /\ pc' # "await_arbiter" /\ error' # "RuntimeError"

\* C1: in multi-round mode with budget Q the arbiter is invoked with queries
\* allowed at most Q times and the QA history never holds more than Q records.
C1_BoundedQueries ==
    mode = "multi" =>
        /\ Cardinality(AllowedCalls) <= max_queries
        /\ Len(qa_history) <= max_queries
        /\ query_count = Len(qa_history)

C1_Witness ==
    /\ mode = "multi"
    /\ max_queries = MaxQueries
    /\ Cardinality(AllowedCalls) = MaxQueries
    /\ Len(qa_history) = MaxQueries
    /\ pc = "returned"

NamesRosterAgent(c) == IsQuery(c) /\ FindAuditor(auditors, TargetOf(c)) # 0

NamesUnknownTarget(c) ==
    IsQuery(c) /\ Truthy(TargetOf(c)) /\ FindAuditor(auditors, TargetOf(c)) = 0

\* C5: a query-allowed invocation that answers Query naming a target outside
\* the roster invokes no reviewer, leaves the QA history and the counter as
\* they are, and ends the arbiter phase with a report text.
C5_UnknownTargetEndsWithReport ==
    [][(StepReturns /\ call.kind = "loop" /\ NamesUnknownTarget(control'))
         => /\ pc' = "assemble"
            /\ final_markdown'.ty = "str"
            /\ UNCHANGED <<qa_history, query_count, calls>>]_vars

\* the answer {"state": "query", "target_reviewer": "Z", "question": null}
\* has been given in the loop
C5_NullQuestionAnswered ==
    /\ mode = "multi"
    /\ NamesUnknownTarget(control)
    /\ TargetOf(control) = Str(<<"Z">>)
    /\ QuestionOf(control) = None
    /\ pc = "raised"
    /\ error = "AttributeError"

\* C6: whatever the arbiter answers, in either mode, the arbiter phase ends
\* in a report and raises nothing: the only error that leaves the phase is
\* the failure of the arbiter's external call itself.
C6_EveryResponseDegradesToFinal == pc = "raised" => error = "RuntimeError"

\* the answer {"state": "final", "final_markdown": null} has been given
C6_NullFinalAnswered ==
    /\ IsFinal(control)
    /\ Get(control, "final_markdown", Str(<<>>)) = None
    /\ pc = "raised"
    /\ error = "AttributeError"

-----------------------------------------------------------------------------
(* Properties of parse_arbiter_json (ParseSpec) *)

\* C7: parse_arbiter_json returns the object parsed from the whole stripped
\* text when that is a JSON object; otherwise the object parsed from the
\* first "{" up to the last "}" when that block is a JSON object; otherwise
\* {state: final, final_markdown: the stripped text}.
C7_ThreeTierChain ==
    pc = "parsed" =>
        LET text == Strip(raw)
            first == Find(text, "{")
            last == RFind(text, "}")
            block == SubSeq(text, first, last)
        IN  control =
                IF json_loads(text).kind = "dict" THEN json_loads(text).d
                ELSE IF first # 0 /\ last > first /\ json_loads(block).kind = "dict"
                     THEN json_loads(block).d
                     ELSE <<[key |-> "state", val |-> Str(<<"final">>)],
                            [key |-> "final_markdown", val |-> Str(text)]>>

\* the second tier has applied: noise before the object
C7_Witness ==
    /\ pc = "parsed"
    /\ raw = <<"x", "{", "S:final", "}">>
    /\ control = <<[key |-> "state", val |-> Str(<<"final">>)]>>

-----------------------------------------------------------------------------
(* Properties of the review rounds (Spec) *)

FailedTasks == {i \in 1..Len(task) : task[i] \in Failures}

\* C8: a run in which every external call succeeds (and no file operation of
\* a task fails) raises no error.
C8_SuccessfulRunRaisesNothing == pc \in {"abort", "raised"} => error = "OSError"

\* every initial review was collected, then the cross-check call failed to bind
C8_CrossCheckRaises ==
    /\ pc = "raised"
    /\ round = "peer"
    /\ error = "TypeError"
    /\ DOMAIN initial_reviews = NamesOf(auditors)
    /\ \A i \in 1..Len(task) : task[i] = "TypeError"

\* C9: each round dispatches exactly one task per configured reviewer, and a
\* round that ends without a failed task leaves a mapping with one entry per
\* reviewer.
C9_FanOutComplete ==
    /\ pc # "submit" => /\ outcome[round] = auditors
                        /\ Len(task) = Len(auditors)
    /\ round # "initial" => Cardinality(DOMAIN initial_reviews) = Len(auditors)
    /\ round = "arbiter" => Cardinality(DOMAIN latest_reviews) = Len(auditors)

\* two Codex reviewers of the same model and effort: three tasks, two entries
C9_SameNameOverwrites ==
    /\ round = "peer"
    /\ Len(auditors) = 3
    /\ auditors[1] = auditors[2]
    /\ Len(outcome.initial) = 3
    /\ Cardinality(DOMAIN initial_reviews) = 2

\* C10: the first failure the main thread observes aborts the round and is
\* the error that leaves run_pipeline; from then on nothing is collected, no
\* round is started, no arbiter is reached and no report is returned; a round
\* holding a failed task never completes.
C10_FirstFailureAborts ==
    [][/\ (pc = "collect" /\ pc' = "abort")
            => \E i \in FailedTasks : error' = task[i]
       /\ (FailedTasks # {})
            => /\ round' = round
               /\ pc' \in {"collect", "abort", "raised"}
               /\ calls' = calls
       /\ (pc \in {"abort", "raised"})
            => /\ pc' \in {"abort", "raised"}
               /\ error' = error
               /\ UNCHANGED <<initial_reviews, latest_reviews, round, calls, report>>
       /\ pc' = "raised" => error' \in Failures /\ report' = None
      ]_vars

\* a failure in round 1 observed after another result had been collected
C10_Witness ==
    /\ pc = "raised"
    /\ round = "initial"
    /\ error = "OSError"
    /\ \E i \in 1..Len(task) : task[i] = "collected"
    /\ \E i \in 1..Len(task) : task[i] = "ok"
    /\ initial_reviews # EmptyMap

Unfinished == {i \in 1..Len(task) : task[i] = "submitted"}

\* C12: rounds never overlap: the cross-check tasks are dispatched only when
\* every initial-review task has finished and was collected, the arbiter phase
\* is entered only when every cross-check task has finished, an error leaves
\* run_pipeline only when no task is still running, and in the log every
\* initial-review dispatch precedes every cross-check dispatch.
C12_RoundsNeverOverlap ==
    [][/\ (round' # round) => /\ Unfinished = {}
                              /\ \A i \in 1..Len(task) : task[i] = "collected"
       /\ (round = "initial" /\ pc = "collect" /\ pc' = "submit")
            => DOMAIN initial_reviews = NamesOf(auditors)
       /\ (pc' \in {"arbiter", "raised"} /\ pc' # pc) => Unfinished = {}
       /\ \A i, j \in 1..Len(calls') :
            (calls'[i].kind = "initial" /\ calls'[j].kind = "peer") => i < j
       /\ (pc = "submit" /\ round = "peer")
            => /\ Len(calls) = Len(auditors)
               /\ \A i \in 1..Len(task) : task[i] = "collected"
      ]_vars

\* the cross-check tasks are running after a round 1 of three reviewers
C12_Witness ==
    /\ round = "peer"
    /\ pc = "collect"
    /\ Len(auditors) = 3
    /\ Len(calls) = 6
    /\ Unfinished # {}
    /\ Cardinality(DOMAIN initial_reviews) = 3

\* external invocations of the arbiter phase that have started and not returned
InFlight == IF pc \in {"await_arbiter", "await_followup"} THEN {call} ELSE {}

\* C13: in the arbiter phase at most one external invocation is in flight: an
\* arbiter step starts only from the idle main thread, when every follow-up
\* issued so far has returned and its answer is in the QA history; a
\* follow-up starts only when the arbiter step that asked for it has returned.
C13_OneInvocationInFlight ==
    [][/\ Cardinality(InFlight') <= 1
       /\ (pc' = "await_arbiter" /\ pc # "await_arbiter")
            => /\ pc = "arbiter"
               /\ call = NoCall
               /\ Len(qa_history) = Cardinality(FollowupCalls)
               /\ query_count = Cardinality(FollowupCalls)
       /\ (pc' = "await_followup" /\ pc # "await_followup")
            => /\ pc = "await_arbiter"
               /\ control' = parse_arbiter_json(raw')
               /\ Len(qa_history) + 1 = Cardinality(FollowupCalls')
       /\ (mode = "multi") =>
            \A i \in 1..Len(calls') : IsFollowupCall(calls'[i]) <=> (i % 2 = 0)
      ]_vars

\* the second arbiter step is in flight after the first follow-up was answered
C13_Witness ==
    /\ pc = "await_arbiter"
    /\ Len(calls) = 3
    /\ Len(qa_history) = 1
    /\ call.kind = "loop"
    /\ InFlight = {call}

FinalText(c) == Get(c, "final_markdown", Str(<<>>))

\* C28: in multi-round mode, when an arbiter step made with queries allowed
\* (so after q < Q queries) returns Final with a text, the loop ends at that
\* step: no invocation of the arbiter or of a reviewer follows, no forced
\* final step is made, the QA history stays as it is, and run_pipeline
\* returns that text, stripped of surrounding whitespace, as the report.
C28_FinalEndsLoop ==
    [][/\ (mode = "multi" /\ StepReturns /\ call.kind = "loop"
            /\ IsFinal(control') /\ FinalText(control').ty = "str")
            => /\ query_count < max_queries
               /\ pc' = "assemble"
               /\ final_markdown' = Str(Strip(FinalText(control').s))
               /\ call' = NoCall
               /\ calls' = calls
               /\ qa_history' = qa_history
       /\ (mode = "multi" /\ pc = "assemble" /\ ~LastCallDisallowed /\ IsFinal(control))
            => /\ pc' = "returned"
               /\ report' = Str(Strip(FinalText(control).s))
               /\ calls' = calls
               /\ DisallowedCalls = {}
       /\ pc \in {"returned", "raised"} => calls' = calls
      ]_vars

\* budget 2, one follow-up answered, then Final with padded text: three
\* invocations in all, the report is the stripped text
C28_Witness ==
    /\ mode = "multi"
    /\ max_queries = 2
    /\ pc = "returned"
    /\ Len(calls) = 3
    /\ Len(qa_history) = 1
    /\ DisallowedCalls = {}
    /\ IsFinal(control)
    /\ FinalText(control).s # Strip(FinalText(control).s)
    /\ report = Str(Strip(FinalText(control).s))

-----------------------------------------------------------------------------
(* Properties of run_shell (ShellSpec) *)

\* the first k attempts of the script exit non-zero
FirstFail(k) == \A i \in 1..k : script[i].kind = "exit" /\ script[i].rc # 0

ShellDone == pc = "shell_done"

\* C14: for every k in 0..3, when the first k attempts exit non-zero and
\* attempt k+1 exits zero, run_shell returns the (stripped) standard output of
\* attempt k+1 and has made exactly k+1 attempts; a first-attempt success
\* (k = 0) makes exactly one attempt.
C14_SuccessAfterKFailures ==
    \A k \in 0..max_retries :
        (ShellDone /\ FirstFail(k) /\ script[k + 1] = Exit(0))
            => /\ shell.status = "returned"
               /\ shell.out = <<OutTokens[k + 1]>>
               /\ shell.out = Strip(Stdout(k + 1))
               /\ shell.runs = k + 1

\* three non-zero exits, then the fourth attempt succeeds and is returned
C14_Witness ==
    /\ ShellDone
    /\ FirstFail(max_retries)
    /\ script[max_retries + 1] = Exit(0)
    /\ shell.status = "returned"
    /\ shell.runs = max_retries + 1
    /\ shell.out = <<"out4">>

\* C15: when every attempt exits non-zero, run_shell makes exactly 4
\* attempts, never more, then raises an error whose message gives 4 as the
\* number of attempts and the exit code of the last (fourth) attempt.
C15_ExhaustedRetriesRaise ==
    /\ shell.runs <= 4
    /\ (ShellDone /\ FirstFail(4))
            => /\ shell.status = "raised"
               /\ shell.runs = 4
               /\ shell.msg = [kind |-> "failed", code |-> script[4].rc, attempts |-> 4]
               /\ shell.last = script[4].rc
    /\ (ShellDone /\ shell.msg.kind = "failed") => FirstFail(4)

\* four non-zero exits with differing codes: the message reports the last one
C15_Witness ==
    /\ ShellDone
    /\ script[1] = Exit(1) /\ script[2] = Exit(1) /\ script[3] = Exit(1)
    /\ script[4] = Exit(2)
    /\ shell.status = "raised"
    /\ shell.runs = 4
    /\ shell.msg = [kind |-> "failed", code |-> 2, attempts |-> 4]

\* an attempt j that times out after j-1 non-zero exits
TimesOutAt(j) == FirstFail(j - 1) /\ script[j] = TimedOut

\* C16: when attempt j times out, whether it is the first attempt or follows
\* earlier non-zero exits, run_shell raises the timeout error at once: the
\* call has ended when that attempt ends, exactly j attempts were made, and
\* no attempt is ever made after the call has ended.
C16_TimeoutFailsImmediately ==
    [][/\ \A j \in 1..(max_retries + 1) :
            (TimesOutAt(j) /\ shell.runs = j - 1 /\ shell'.runs = j)
                => /\ pc' = "shell_done"
                   /\ shell'.status = "raised"
                   /\ shell'.msg = TimeoutMessage
       /\ ShellDone => shell' = shell
       /\ \A j \in 1..(max_retries + 1) : TimesOutAt(j) => shell'.runs <= j
      ]_vars

\* two non-zero exits, then the third attempt times out and ends the call
C16_Witness ==
    /\ ShellDone
    /\ TimesOutAt(3)
    /\ script[4] = Exit(0)
    /\ shell.status = "raised"
    /\ shell.msg = TimeoutMessage
    /\ shell.runs = 3

-----------------------------------------------------------------------------
(* Properties of the run directory's lifecycle (RunSpec) *)

CleanupSites == {"startup", "teardown", "atexit"}

\* a step deletes something of the run directory or unregisters a worktree
Destroys(before, after) ==
    \/ before.exists /\ ~after.exists
    \/ after.partial /\ ~before.partial
    \/ before.worktrees /\ ~after.worktrees

LastCleanup == cleanups[Len(cleanups)]

\* C17: at each of the three cleanup sites the recursive delete of the run
\* directory and the removal of its worktrees begin only in a state where
\* the directory holds the marker file; a site that finds the directory
\* without the marker leaves it exactly as it was; nothing but a cleanup
\* site ever deletes from the directory.
C17_DeleteOnlyWithMarker ==
    [][/\ Destroys(fs, fs') => fs.marker /\ Len(cleanups') = Len(cleanups) + 1
       /\ cleanups' # cleanups =>
            /\ cleanups'[Len(cleanups')].site \in CleanupSites
            /\ cleanups'[Len(cleanups')].had = fs
            /\ cleanups'[Len(cleanups')].left = fs'
            /\ ~fs.marker => fs' = fs
      ]_vars

\* a stale stamped directory was deleted at start-up; the marker was then
\* removed during the run and the teardown left the directory as it was
C17_Witness ==
    /\ Len(cleanups) = 2
    /\ cleanups[1].site = "startup" /\ cleanups[1].had.marker
    /\ Destroys(cleanups[1].had, cleanups[1].left)
    /\ cleanups[2].site = "teardown" /\ ~cleanups[2].had.marker
    /\ cleanups[2].left = cleanups[2].had
    /\ fs.exists

WhenMarkerMissing == [startup |-> "raised", teardown |-> "warned", atexit |-> "skipped"]

C19_CleanupRemovesEntirely ==
    \A i \in 1..Len(cleanups) :
        cleanups[i].had.marker =>
            /\ ~cleanups[i].left.exists
            /\ ~cleanups[i].left.worktrees
            /\ ~cleanups[i].left.partial

\* the teardown's recursive delete failed part-way: a warning, the
\* directory partly destroyed, run_pipeline returns as if it were removed
C19_PartlyDestroyed ==
    /\ pc = "run_returned"
    /\ cleanups # <<>>
    /\ LastCleanup.site = "teardown"
    /\ LastCleanup.had.marker
    /\ fs.exists /\ fs.partial
    /\ error = ""

AbortsAfterStamp == {StageErrors[StagesAfterStamp[i]] : i \in 1..3}

\* C20: when run_pipeline aborts after the run directory was stamped, the
\* run path is still in the registry at process exit, and after the exit
\* hook no directory that held the marker when the hook ran is left.
C20_NoStampedDirSurvivesExit ==
    /\ (pc = "run_aborted" /\ error \in AbortsAfterStamp)
            => registry = <<RunPath>> /\ hook
    /\ (pc = "exited" /\ error \in AbortsAfterStamp /\ cleanups # <<>>
            /\ LastCleanup.site = "atexit" /\ LastCleanup.had.marker)
            => ~fs.exists

\* a round failed, the exit hook's delete failed part-way: the run
\* directory, marker still inside, outlives the process
C20_StampedDirSurvives ==
    /\ pc = "exited"
    /\ error = "round failed"
    /\ registry = <<>>
    /\ fs.exists /\ fs.marker /\ fs.partial

\* C29: once run_pipeline has returned normally its run path is not in the
\* registry, whether the teardown removed the directory, failed to, or left
\* it in place for lack of the marker; once the exit hook has run the
\* registry is empty, whatever each cleanup did.  Before either, from
\* registration on, the path is in the registry.
C29_Deregistered ==
    /\ pc = "run_returned" => registry = <<>>
    /\ pc = "exited" => registry = <<>>
    /\ (hook /\ pc \notin {"run_returned", "exited"}) => registry = <<RunPath>>
    /\ ~hook => registry = <<>>

\* an unmarked directory was left in place by the teardown, run_pipeline
\* returned, the exit hook ran: the registry is empty, the directory is there
C29_Witness ==
    /\ pc = "exited"
    /\ error = ""
    /\ registry = <<>>
    /\ cleanups # <<>>
    /\ LastCleanup.site = "teardown"
    /\ LastCleanup.result = "warned"
    /\ fs.exists /\ fs.worktrees

\* the components of path a are a proper prefix of those of path b
StrictlyUnder(b, a) ==
    /\ Len(SplitPath(b, <<>>, <<>>)) > Len(SplitPath(a, <<>>, <<>>))
    /\ SubSeq(SplitPath(b, <<>>, <<>>), 1, Len(SplitPath(a, <<>>, <<>>))) = SplitPath(a, <<>>, <<>>)

ResolvesOutside == ~StrictlyUnder(Candidate_workdir(base_workdir), RepoRoot)

\* C21: when the workdir root resolves, symbolic links followed, to the
\* repository root itself or to a path that is not under it, run_pipeline
\* aborts at the validation: nothing is registered, no exit hook is
\* installed, no directory is created or deleted, no cleanup site is
\* reached and the run never gets to setting up or invoking an agent.
C21_OutsideWorkdirAborts ==
    [][ResolvesOutside =>
            /\ pc \in {"run_validate", "run_aborted"}
            /\ pc' \in {"run_validate", "run_aborted"}
            /\ pc' = "run_aborted" => error' = "SystemExit: workdir not inside repo"
            /\ fs' = fs
            /\ registry' = <<>> /\ ~hook' /\ cleanups' = <<>>
      ]_vars

\* the workdir root is a link inside the repository that points outside it;
\* the stale stamped run directory found on disk is still there
C21_Witness ==
    /\ base_workdir = <<"l">>
    /\ Candidate_workdir(base_workdir) = <<"/", "o">>
    /\ pc = "run_aborted"
    /\ error = "SystemExit: workdir not inside repo"
    /\ fs = Dir(TRUE, TRUE)
    /\ registry = <<>> /\ ~hook

-----------------------------------------------------------------------------
(* Properties of workspace provisioning (SetupSpec) *)

\* C22: for every accepted list of configurations, repeated ones and names
\* with equal slugs included, the directories given to the agents of the
\* run, arbiter included, are pairwise distinct.
C22_WorkspacesDistinct ==
    \A i, j \in 1..Len(workdirs) : i # j => workdirs[i].dir # workdirs[j].dir

\* the same --codex-model three times in a directory that is not a git
\* repository: set-up completes, the first and third reviewer share a directory
C22_SharedWorkspace ==
    /\ pc = "setup_done"
    /\ ~has_git
    /\ arbiter_family = "gemini"
    /\ Len(workdirs) = 5
    /\ Len(codex_configs) = 3
    /\ codex_configs[1] = codex_configs[2] /\ codex_configs[2] = codex_configs[3]
    /\ workdirs[2].dir # workdirs[1].dir
    /\ workdirs[3].dir = workdirs[1].dir
    /\ workdirs[3].role = "codex" /\ workdirs[1].role = "codex"

-----------------------------------------------------------------------------
(* Properties of the memo store (MemoSpec) *)

\* the step in which extract_and_update_memo runs
Extracts == pc = "memo_extract" /\ pc' # "memo_extract"

DirectiveLines == SelectSeq(SplitLines(raw_output, <<>>, <<>>), IsDirectiveLine)
OtherLines == SelectSeq(SplitLines(raw_output, <<>>, <<>>), LAMBDA l : ~IsDirectiveLine(l))
HasDirective == DirectiveLines # <<>>
DirectiveValue == json_loads(Strip(Tail(Strip(DirectiveLines[1]))))
IsDirective == HasDirective /\ DirectiveValue.kind = "dict"
AppendOf == Get(DirectiveValue.d, "append", Str(<<>>))
OverwriteOf == Truthy(Get(DirectiveValue.d, "overwrite", PyFalse))

\* the memo file of the reviewer holds text (no file counts as empty)
Holds(files, text) ==
    IF memo_path(Reviewer) \in DOMAIN files
    THEN files[memo_path(Reviewer)] = text
    ELSE text = <<>>

\* C23: save_memo(A, M) followed by load_memo(A) returns M, whether the
\* memo file was absent or held another memo before.
C23_MemoRoundTrip ==
    [][(pc = "memo_reload" /\ pc' = "memo_done" /\ new_memo # Str(current_memo))
            => current_memo' = new_memo.s
      ]_vars

\* the memo "u<CR>v" was saved; the next load_memo returns "u<LF>v"
C23_CarriageReturnLost ==
    /\ pc = "memo_done"
    /\ new_memo = Str(<<"u", CR, "v">>)
    /\ memo_files[memo_path(Reviewer)] = <<"u", CR, "v">>
    /\ current_memo = <<"u", LF, "v">>

\* M + "\n" + T when M is non-empty and not newline-terminated, else M + T
Appended(M, T) == IF M # <<>> /\ M[Len(M)] # LF THEN M \o <<LF>> \o T ELSE M \o T

\* the claim as stated, the empty append text included
C24_AppendAnyText ==
    [][(Extracts /\ IsDirective /\ AppendOf.ty = "str" /\ ~OverwriteOf)
            => /\ new_memo' = Str(Appended(current_memo, AppendOf.s))
               /\ Holds(memo_files', Appended(current_memo, AppendOf.s))
      ]_vars

\* C24 (amended): for every existing memo M and every directive with a
\* non-empty append text T and overwrite false or absent, the memo becomes
\* M + newline + T when M is non-empty and not newline-terminated and M + T
\* otherwise, and the memo file holds that text; with an empty append text
\* the memo and the file are left as they are.
C24_AppendNonEmptyText ==
    [][(Extracts /\ IsDirective /\ AppendOf.ty = "str" /\ ~OverwriteOf)
            => IF AppendOf.s # <<>>
               THEN /\ new_memo' = Str(Appended(current_memo, AppendOf.s))
                    /\ memo_files'[memo_path(Reviewer)] = Appended(current_memo, AppendOf.s)
                    /\ pc' = "memo_reload"
               ELSE /\ new_memo' = Str(current_memo)
                    /\ memo_files' = memo_files
      ]_vars

\* "t" appended to the memo "m": the memo and the file are "m", newline, "t"
C24_Witness ==
    /\ pc = "memo_reload"
    /\ IsDirective /\ AppendOf = Str(<<"t">>) /\ ~OverwriteOf
    /\ current_memo = <<"m">>
    /\ new_memo = Str(<<"m", LF, "t">>)
    /\ memo_files[memo_path(Reviewer)] = <<"m", LF, "t">>

\* C25: for every existing memo M and every directive with overwrite true
\* and text T, the empty text included, the memo becomes exactly T and the
\* memo file holds exactly T.
C25_OverwriteYieldsText ==
    [][(Extracts /\ IsDirective /\ AppendOf.ty = "str" /\ OverwriteOf)
            => /\ new_memo' = Str(AppendOf.s)
               /\ Holds(memo_files', AppendOf.s)
      ]_vars

\* overwrite with the empty text on the memo "m": the memo is still "m"
C25_EmptyOverwriteIgnored ==
    /\ pc = "memo_reload"
    /\ IsDirective /\ AppendOf = Str(<<>>) /\ OverwriteOf
    /\ current_memo = <<"m">>
    /\ new_memo = Str(<<"m">>)
    /\ memo_files[memo_path(Reviewer)] = <<"m">>

\* the directive line is not a directive (append text, overwrite flag): it
\* is not JSON, not a JSON object, or its append member is not a text
CannotBeParsed == HasDirective /\ (DirectiveValue.kind # "dict" \/ AppendOf.ty \notin {"str", "none"})

\* C26: when the directive line cannot be parsed the memo, returned and
\* stored, is unchanged, the line is removed from the visible text, the
\* other lines are kept in order, and nothing is raised.
C26_UnparsableLeavesMemo ==
    [][(Extracts /\ CannotBeParsed)
            => /\ new_memo' = Str(current_memo)
               /\ memo_files' = memo_files
               /\ cleaned_output' = StripWs(JoinLines(OtherLines))
               /\ pc' # "memo_raised"
      ]_vars

\* the append member is a number, the memo was "m": the warning is
\* written, yet the memo and the file now end with a newline
C26_MemoChanged ==
    /\ pc = "memo_reload"
    /\ IsDirective /\ AppendOf = Num /\ ~OverwriteOf
    /\ Extracted(raw_output, <<"m">>).warned
    /\ current_memo = <<"m">>
    /\ new_memo = Str(<<"m", LF>>)
    /\ memo_files[memo_path(Reviewer)] = <<"m", LF>>
    /\ cleaned_output = StripWs(JoinLines(OtherLines))

-----------------------------------------------------------------------------
(* Properties of the memo store across runs (PersistSpec) *)

MemoFile(files) == Restrict(files, (DOMAIN files) \cap {memo_path(ReviewerIn(run_id, has_git))})

\* the run before saved the memo new_memo
SavedInRunBefore == run_id > 1 /\ new_memo.ty = "str" /\ new_memo # Str(current_memo)

\* no run directory holds the memo file, and only the memo update itself
\* changes it: start-up, provisioning, teardown and exit hook do not
C27_CleanupKeepsMemoFile ==
    [][/\ \A k \in 1..MaxRuns : ~Under(memo_path(ReviewerIn(run_id, has_git)), RunWorkdir(k))
       /\ pc # "persist_extract" => MemoFile(memo_files') = MemoFile(memo_files)
      ]_vars

\* C27: reviewer memos live outside the run directory, provisioning and
\* every cleanup leave the memo files unchanged, and so the memo written
\* in one run is what load_memo returns for the reviewer in the next run.
C27_MemoSurvivesRuns ==
    [][/\ \A k \in 1..MaxRuns : ~Under(memo_path(ReviewerIn(run_id, has_git)), RunWorkdir(k))
       /\ pc # "persist_extract" => MemoFile(memo_files') = MemoFile(memo_files)
       /\ (pc = "persist_load" /\ pc' = "persist_extract" /\ SavedInRunBefore)
            => current_memo' = new_memo.s
      ]_vars

\* the first run saved "u<CR>v" and removed its directory; the second
\* run, in a new directory, loads "u<LF>v"
C27_MemoAlteredInNextRun ==
    /\ pc = "persist_extract"
    /\ run_id = 2
    /\ new_memo = Str(<<"u", CR, "v">>)
    /\ memo_files[memo_path(ReviewerIn(run_id, has_git))] = <<"u", CR, "v">>
    /\ ~IsDir(memo_files, RunWorkdir(1))
    /\ IsDir(memo_files, RunWorkdir(2))
    /\ current_memo = <<"u", LF, "v">>

-----------------------------------------------------------------------------
(* Properties of the follow-up prompt (SnippetSpec) *)

\* the pieces of a snippet between its "---" lines
RECURSIVE PiecesOf(_, _, _)
PiecesOf(t, cur, acc) ==
    IF t = <<>> THEN Append(acc, cur)
    ELSE IF Len(t) >= 3 /\ SubSeq(t, 1, 3) = <<LF, "---", LF>>
         THEN PiecesOf(SubSeq(t, 4, Len(t)), <<>>, Append(acc, cur))
    ELSE PiecesOf(Tail(t), Append(cur, Head(t)), acc)

\* the question and the answer a piece shows
RecordOf(piece) ==
    LET i == CHOOSE i \in 1..Len(piece) : piece[i] = "Answer:"
    IN  [question |-> SubSeq(piece, 3, i - 3), answer |-> SubSeq(piece, i + 2, Len(piece) - 1)]

\* the records of the history put to the reviewer the call is for
RecordsOfTarget == SelectSeq(qa_history, LAMBDA item : item.reviewer = auditors[call.target])

\* C30: the follow-up prompt for target T carries exactly the earlier
\* question-and-answer records whose target is T, in the order they were
\* appended, and none of another agent; with no such record it carries
\* the fixed placeholder.
C30_SnippetHoldsOwnRecords ==
    pc = "snippet_followup" =>
        IF RecordsOfTarget = <<>>
        THEN qa_snippet = NoPreviousQa
        ELSE /\ Len(PiecesOf(qa_snippet, <<>>, <<>>)) = Len(RecordsOfTarget)
             /\ \A i \in 1..Len(RecordsOfTarget) :
                    /\ RecordOf(PiecesOf(qa_snippet, <<>>, <<>>)[i]).question = RecordsOfTarget[i].question
                    /\ RecordOf(PiecesOf(qa_snippet, <<>>, <<>>)[i]).answer = RecordsOfTarget[i].answer

\* third question to the Codex reviewer, asked q2 first, the Gemini
\* reviewer in between: the snippet shows q2 then q1 and nothing of Gemini
C30_Witness ==
    /\ pc = "snippet_followup"
    /\ call.target = 1
    /\ Len(qa_history) = 3
    /\ qa_history[1] = [reviewer |-> SnippetRoster[1], question |-> <<"q2">>, answer |-> <<"a2", LF, "b">>]
    /\ qa_history[2].reviewer = GeminiName
    /\ qa_history[3] = [reviewer |-> SnippetRoster[1], question |-> <<"q1">>, answer |-> <<"a1">>]
    /\ qa_snippet = <<"Question:", LF, "q2", LF, LF, "Answer:", LF, "a2", LF, "b", LF,
                      LF, "---", LF,
                      "Question:", LF, "q1", LF, LF, "Answer:", LF, "a1", LF>>

-----------------------------------------------------------------------------
(* Properties of the hand-over to the arbiter (HandoffSpec) *)

\* the invocation was given both mappings as the run holds them
ReceivesBoth(c) ==
    /\ {"initial_reviews", "latest_reviews"} \subseteq DOMAIN c
    /\ c.initial_reviews = initial_reviews
    /\ c.latest_reviews = latest_reviews

\* C31: both review generations are retained and used: the initial
\* mapping stays as round 1 left it, and every arbiter invocation
\* receives both the initial and the latest review of each agent.
C31_ArbiterReceivesBothReviews ==
    [][/\ initial_reviews' = initial_reviews
       /\ latest_reviews' = latest_reviews
       /\ (pc = "arbiter" /\ pc' # "arbiter")
            => /\ pc' = "await_arbiter"
               /\ Len(calls') = Len(calls) + 1
               /\ ReceivesBoth(calls'[Len(calls')])
      ]_vars

\* three reviewers, every one with a latest review that differs from its
\* initial one: the arbiter's invocation raises TypeError and receives
\* nothing
C31_InvocationRaises ==
    /\ pc = "raised"
    /\ error = "TypeError"
    /\ calls = <<>>
    /\ Cardinality(NamesOf(auditors)) = 3
    /\ DOMAIN latest_reviews = NamesOf(auditors)
    /\ \A n \in NamesOf(auditors) : latest_reviews[n] # initial_reviews[n]
    /\ mode = "multi" /\ max_queries = 2

-----------------------------------------------------------------------------
(* Properties of the arbiter's workspace (SetupSpec) *)

ArbiterWorkspaces == {workdirs[i] : i \in {j \in 1..Len(workdirs) : workdirs[j].role = "arbiter"}}

\* the views of the codebase that provisioning has put at d or below it
ViewsIn(d) ==
    {i \in 1..Len(workdirs) :
        /\ workdirs[i].view # "none"
        /\ (workdirs[i].dir = d \/ Under(workdirs[i].dir, d))}

\* C32: for either arbiter family, with and without git, provisioning
\* makes the arbiter's directory and puts no checkout, patch or copy into
\* it, neither by its own step nor by setting up a reviewer.
C32_ArbiterHasNoView ==
    /\ \A a \in ArbiterWorkspaces : a.view = "none" /\ ViewsIn(a.dir) = {}
    /\ pc = "setup_done" => Cardinality(ArbiterWorkspaces) = 1

\* a Codex arbiter in a git repository, the reserved configuration among
\* the three given: two reviewers and Gemini have worktrees, the arbiter's
\* directory has none
C32_Witness ==
    /\ pc = "setup_done"
    /\ arbiter_family = "codex"
    /\ has_git
    /\ Len(codex_configs) = 3
    /\ \E i \in 1..3 : codex_configs[i] = [model |-> ArbiterModel, effort |-> ArbiterEffort]
    /\ Len(workdirs) = 4
    /\ workdirs[1].role = "arbiter" /\ workdirs[1].view = "none"
    /\ \A i \in 2..4 : workdirs[i].view = "worktree"
    /\ ViewsIn(workdirs[1].dir) = {}

-----------------------------------------------------------------------------
(* Properties of workspace set-up by git (SandboxSpec) *)

\* a git command of the set-up is run and does not end with exit code 0
SetupStepFails ==
    /\ pc \in {"sandbox_worktree", "sandbox_patch"}
    /\ script' # script
    /\ Head(script) # "ok"

\* C33: a failure while setting up a workspace, of the checkout or of the
\* patch, is logged, does not end the run, and provisioning goes on.
C33_SetupFailureNonFatal ==
    [][SetupStepFails
            => /\ pc' \in {"sandbox_worktree", "sandbox_patch", "sandbox_rounds"}
               /\ error' = ""
               /\ Len(stderr') = Len(stderr) + 1
      ]_vars

\* the part that holds: `git apply` exiting non-zero is logged and the
\* set-up goes on with the unpatched checkout
C33_PatchRejectionNonFatal ==
    [][(SetupStepFails /\ pc = "sandbox_patch" /\ Head(script) = "nonzero")
            => /\ pc' \in {"sandbox_worktree", "sandbox_rounds"}
               /\ error' = ""
               /\ stderr' = Append(stderr, PatchWarning)
               /\ workdirs' = workdirs
      ]_vars

\* the Codex reviewer is set up; `git worktree add` for the Gemini
\* reviewer exits non-zero: SystemExit, nothing logged, no round
C33_WorktreeFailureAborts ==
    /\ pc = "sandbox_aborted"
    /\ error = "SystemExit: git worktree add"
    /\ Len(workdirs) = 1
    /\ workdirs[1].patched
    /\ stderr = <<>>

-----------------------------------------------------------------------------
(* Properties of progress reporting (ProgressSpec) *)

\* the values of the progress dict in the order the reporter reads them
ProgressValues == [i \in 1..Len(ProgressKeys) |-> progress[ProgressKeys[i]]]

\* C34: once the reporter runs, every write of the progress dict is made
\* by the main thread holding the mutex and every read by the reporter
\* holding it, and the five values the reporter leaves its block with are
\* the dict as it stands at that moment, not a mixture of two updates.
C34_ProgressUnderMutex ==
    [][/\ progress' # progress => progress_lock = "main"
       /\ (reporter'.snap # reporter.snap /\ reporter'.snap # <<>>)
            => progress_lock = "reporter"
       /\ (progress_lock = "main" /\ progress_lock' # "main") => progress_lock' = "none"
       /\ (reporter.pc = "read" /\ reporter'.pc = "format")
            => reporter'.snap = ProgressValues
      ]_vars

\* the reporter has printed a line taken during round 1 and holds the
\* mutex again, half-way through its reads, while the main thread waits
\* to record the arbiter's first step
C34_Witness ==
    /\ reporter.pc = "read"
    /\ Len(reporter.snap) = 2
    /\ progress_lock = "reporter"
    /\ pc = "p_step"
    /\ progress.phase = "arbiter"
    /\ stderr # <<>>
    /\ stderr[1][1] = "initial_reviews"
    /\ stderr[1][3] = 1

-----------------------------------------------------------------------------
(* Properties of a failed follow-up (ArbiterSpec) *)

\* the record a follow-up of the reviewer asked leaves when its external
\* call failed
FailedRecord == [reviewer |-> auditors[call.target], question |-> call.question,
                 answer |-> ReplyFailed]

\* C35: a follow-up whose external call fails does not end the run: the
\* step that ends the follow-up never raises, it appends one record, which
\* holds the failure text as the answer when the call failed, it adds one
\* to the query counter, and the arbiter loop is entered again.
C35_FailedFollowupGoesOn ==
    [][pc = "await_followup" =>
         /\ pc' = "arbiter"
         /\ error' = error
         /\ query_count' = query_count + 1
         /\ Len(qa_history') = Len(qa_history) + 1
         /\ SubSeq(qa_history', 1, Len(qa_history)) = qa_history
         /\ qa_history'[Len(qa_history')].answer = ReplyFailed
              => qa_history' = Append(qa_history, FailedRecord)
      ]_vars

\* the first follow-up failed, was counted, and the arbiter has been
\* invoked again with the failure text in the history
C35_Witness ==
    /\ pc = "await_arbiter"
    /\ query_count = 1
    /\ Len(qa_history) = 1
    /\ qa_history[1].answer = ReplyFailed
    /\ Len(calls) = 3
    /\ calls[2].kind = "followup"
    /\ calls[3].kind = "arbiter"
    /\ error = ""

-----------------------------------------------------------------------------
(* Properties of worktree cleanup (WorktreeSpec) *)

\* the worktree's resolved path is the run directory or lies in it,
\* component by component
InRunDirectory(path) ==
    \/ SplitPath(realpath(path), <<>>, <<>>) = SplitPath(realpath(RunWorkdir(run_id)), <<>>, <<>>)
    \/ StrictlyUnder(realpath(path), realpath(RunWorkdir(run_id)))

\* C36: every worktree that the cleanup of a run directory takes away has
\* a resolved path that is the run directory or lies strictly under it; a
\* worktree elsewhere stays registered.
C36_OnlyWorktreesInRunDirectory ==
    [][\A i \in 1..Len(worktrees) :
          (worktrees[i].present /\ ~worktrees'[i].present) => InRunDirectory(worktrees[i].path)
      ]_vars

\* the cleanup is over: the worktree reached through a link into the run
\* directory is gone, the sibling's and the other run's are still there
C36_Witness ==
    /\ pc = "wt_cleaned"
    /\ Len(worktrees) = 4
    /\ worktrees[1].present
    /\ \E i, j, k \in 2..4 :
         /\ worktrees[i].path = PathJoin(RunWorkdir(1) \o <<"0">>, <<"a">>)
         /\ worktrees[i].present
         /\ worktrees[j].path = PathJoin(RunWorkdir(2), <<"a">>)
         /\ worktrees[j].present
         /\ worktrees[k].path[4] = "i"
         /\ ~worktrees[k].present

-----------------------------------------------------------------------------
(* Properties of the reviewers' memo files (SetupSpec) *)

\* the Auditor built for a workspace (pipeline.py 467-477, 538-548,
\* 578-588): a reviewer's memo_root is memos/<slug> under the workdir root,
\* an arbiter has none
AuditorOf(w) ==
    [name |-> IF w.role = "arbiter" /\ arbiter_family = "codex"
              THEN CodexName([model |-> ArbiterModel, effort |-> ArbiterEffort])
              ELSE w.name,
     workdir |-> PathJoin(run_workdir_abs, w.dir),
     memo_root |-> IF w.role = "arbiter" THEN <<>>
                   ELSE PathJoin(PathJoin(base_workdir_abs, <<"memos">>), w.slug)]

\* the workspaces of the reviewers, whose tasks a round runs side by side
ReviewerIndexes == {i \in 1..Len(workdirs) : workdirs[i].role # "arbiter"}

\* C37: the memo files of the reviewers of one run are pairwise distinct,
\* so no two reviewer tasks of a round read or write the same file.
C37_MemoPathsDistinct ==
    \A i, j \in ReviewerIndexes :
        i # j => memo_path(AuditorOf(workdirs[i])) # memo_path(AuditorOf(workdirs[j]))

\* as long as no reviewer name occurs twice the memo files are distinct
C37_DistinctNamesDistinctMemos ==
    (\A i, j \in ReviewerIndexes : i # j => workdirs[i].name # workdirs[j].name)
        => C37_MemoPathsDistinct

\* the same --codex-model three times outside a git repository: set-up
\* completes and two Codex reviewers of the roster have one memo file
C37_SharedMemoFile ==
    /\ pc = "setup_done"
    /\ ~has_git
    /\ Len(codex_configs) = 3
    /\ codex_configs[1] = codex_configs[2] /\ codex_configs[2] = codex_configs[3]
    /\ \E i, j \in ReviewerIndexes :
         /\ i < j
         /\ workdirs[i].role = "codex" /\ workdirs[j].role = "codex"
         /\ workdirs[i].slug # workdirs[i + 1].slug
         /\ memo_path(AuditorOf(workdirs[i])) = memo_path(AuditorOf(workdirs[j]))

-----------------------------------------------------------------------------
(* Properties of executions side by side (ExecSpec) *)

\* the execution has named its run directory and its process has not exited
Live(x) == x.pc \notin {"idle", "exited"}

\* the execution has created its run directory and not yet cleaned it
Using(x) == x.pc \in {"stamp", "running"}

\* C38: two executions that overlap in time have different run
\* directories, and no step of one execution (start-up cleanup, end-of-run
\* cleanup, exit hook) removes a directory the other one is using.
C38_ExecutionsIsolated ==
    [][\A e, f \in Executions :
          e # f =>
            /\ (Live(execs'[e]) /\ Live(execs'[f])) => RunIdOf(execs'[e]) # RunIdOf(execs'[f])
            /\ (execs'[e] # execs[e] /\ Using(execs[f]) /\ fs[RunIdOf(execs[f])].exists)
                 => fs'[RunIdOf(execs[f])].exists
      ]_vars

\* as long as the two run ids differ, no execution removes the other's
\* directory
C38_DistinctIdsIsolated ==
    [][\A e, f \in Executions :
          (/\ e # f
           /\ Live(execs[e]) /\ Live(execs[f])
           /\ RunIdOf(execs[e]) # RunIdOf(execs[f])
           /\ execs'[e] # execs[e]
           /\ Using(execs[f]) /\ fs[RunIdOf(execs[f])].exists)
            => fs'[RunIdOf(execs[f])].exists
      ]_vars

\* two executions with the same second and process id: the second one's
\* start-up cleanup has removed the stamped directory the first is working in
C38_DirectoryRemovedUnderRun ==
    /\ execs[1].pc = "running"
    /\ execs[2].pc = "context"
    /\ RunIdOf(execs[1]) = RunIdOf(execs[2])
    /\ ~fs[RunIdOf(execs[1])].exists

-----------------------------------------------------------------------------
(* Properties of the arbiter and the roster (SetupSpec) *)

\* the `auditors` list: the name of each reviewer in the order of the
\* appends at 540 and 589
ReviewerRoster ==
    [i \in 1..Len(SelectSeq(workdirs, LAMBDA w : w.role # "arbiter")) |->
        AuditorOf(SelectSeq(workdirs, LAMBDA w : w.role # "arbiter")[i]).name]

ArbiterNames == {AuditorOf(workdirs[i]).name : i \in {j \in 1..Len(workdirs) :
                                                        workdirs[j].role = "arbiter"}}

\* a control object of the arbiter that asks the named agent a question
QueryTo(name) ==
    <<[key |-> "state", val |-> Str(<<"query">>)],
      [key |-> "target_reviewer", val |-> Str(name)],
      [key |-> "question", val |-> Str(<<"q">>)]>>

\* C39: the arbiter is no member of the reviewer roster: its name differs
\* from the name of every reviewer set up, and a query of the arbiter that
\* names the arbiter itself finds no reviewer and ends the loop with the
\* unknown-reviewer report.
C39_ArbiterOutsideRoster ==
    \A a \in ArbiterNames :
        /\ a \notin NamesOf(ReviewerRoster)
        /\ FindAuditor(ReviewerRoster, Str(a)) = 0
        /\ LoopDecision(QueryTo(a), ReviewerRoster)
             = Finish(Str(UnknownReviewer(Str(a), QueryTo(a))))

\* Codex is the arbiter and the reserved configuration was among the
\* --codex-model values: set-up is complete with one Codex reviewer less
\* than configurations, the Gemini reviewer, and the arbiter
C39_Witness ==
    /\ pc = "setup_done"
    /\ arbiter_family = "codex"
    /\ Len(codex_configs) = 2
    /\ codex_configs[1] = [model |-> ArbiterModel, effort |-> ArbiterEffort]
    /\ codex_configs[2] # codex_configs[1]
    /\ Len(ReviewerRoster) = 2
    /\ ReviewerRoster[1] = CodexName(codex_configs[2])
    /\ ReviewerRoster[2] = GeminiReviewerName
    /\ ArbiterNames = {CodexName(codex_configs[1])}

====
